---- MODULE Spec2Model ----
(***************************************************************************)
(* A model of the resumable, deduplicating crawl engine of                 *)
(* fetch_nadlan_data.py: record hashing, multi-transaction row expansion,  *)
(* the checkpoint files and the per-neighborhood crawl.                    *)
(*                                                                         *)
(* Text is modelled as a sequence of one-character strings, so that        *)
(* concatenation, prefix tests, stripping and the lexicographic order of   *)
(* file names are computed as Python computes them.  A record (a Python    *)
(* dict) is a function from field names to text; the Hebrew keys of the    *)
(* source are written with the English names of the data model:            *)
(*   address, area, transactionDate, price, parcelRef, propertyType,       *)
(*   rooms, floor, buildYear, pricePerArea, floorsInBuilding               *)
(* (lines 302-309 and 330-332 of fetch_nadlan_data.py, in that order).     *)
(***************************************************************************)
EXTENDS Integers, Sequences, FiniteSets, TLC

VARIABLES
    args,            \* the arguments of the function under test (SpecHash, SpecExtract)
    ret,             \* <<>> before the call, <<result>> after it
    site,            \* site[n]: the pages the browser shows for neighborhood n
    checkpoint_dir,  \* the files of CHECKPOINT_DIR: name -> contents
    now,             \* the wall clock, in seconds, when it was last read
    local,           \* local[n]: the frame of process_neighborhood(n)
    results,         \* the results dict of main()
    process,         \* "running", "interrupted", "exited", "stopped" or "killed"
    run,             \* how many times the program has been started
    faults,          \* browser and file errors raised so far
    last_save,       \* last_save[n]: the arguments of n's last completed save
    previous,        \* previous[n]: the counters of n's crawl in the previous run
    max_workers,     \* the width of main()'s thread pool
    checkpoint_lock, \* the threads inside a with checkpoint_lock block
    logging_lock     \* the threads inside the with logging_lock block

vars == <<args, ret, site, checkpoint_dir, now, local, results, process, run,
          faults, last_save, previous, max_workers, checkpoint_lock,
          logging_lock>>

probeVars == <<args, ret>>

poolVars == <<max_workers, checkpoint_lock, logging_lock>>

crawlVars == <<site, checkpoint_dir, now, local, results, process, run, faults,
               last_save, previous, max_workers, checkpoint_lock, logging_lock>>

----------------------------------------------------------------------------
(* Text *)

\* The empty string; falsy in Python.
EMPTY == <<>>

\* dict.get(key, ''): the value, or the empty string when the key is absent.
Get(record, key) == IF key \in DOMAIN record THEN record[key] ELSE EMPTY

\* str.strip(): leading and trailing blanks removed.
RECURSIVE LStrip(_)
LStrip(s) == IF s # EMPTY /\ Head(s) = " " THEN LStrip(Tail(s)) ELSE s

RECURSIVE RStrip(_)
RStrip(s) ==
    IF s # EMPTY /\ s[Len(s)] = " " THEN RStrip(SubSeq(s, 1, Len(s) - 1)) ELSE s

Strip(s) == RStrip(LStrip(s))

\* The printable ASCII characters in code order, from the blank (32) to the
\* tilde (126); the double quote (34), the backslash (92) and the
\* backtick (96) are spelled out.
Printable ==
    <<" ", "!", "quote", "#", "$", "%", "&", "'", "(", ")", "*", "+", ",", "-", ".", "/">>
    \o <<"0", "1", "2", "3", "4", "5", "6", "7", "8", "9", ":", ";", "<", "=", ">", "?">>
    \o <<"@", "A", "B", "C", "D", "E", "F", "G", "H", "I", "J", "K", "L", "M", "N", "O">>
    \o <<"P", "Q", "R", "S", "T", "U", "V", "W", "X", "Y", "Z", "[", "backslash", "]", "^", "_">>
    \o <<"backtick", "a", "b", "c", "d", "e", "f", "g", "h", "i", "j", "k", "l", "m", "n", "o">>
    \o <<"p", "q", "r", "s", "t", "u", "v", "w", "x", "y", "z", "{", "|", "}", "~">>

\* ord(c): the code point that Python's string comparison orders by.
Ord(c) == 31 + CHOOSE i \in 1..Len(Printable) : Printable[i] = c

\* a < b for two strings: at the first position where they differ the smaller
\* code point decides; a proper prefix is smaller.
StrLess(a, b) ==
    LET m == IF Len(a) < Len(b) THEN Len(a) ELSE Len(b)
        diff == { i \in 1..m : a[i] # b[i] }
    IN  IF diff = {} THEN Len(a) < Len(b)
        ELSE LET i == CHOOSE j \in diff : \A k \in diff : j <= k
             IN  Ord(a[i]) < Ord(b[i])

\* str.startswith(prefix).
StartsWith(s, prefix) ==
    Len(prefix) <= Len(s) /\ SubSeq(s, 1, Len(prefix)) = prefix

\* s.split(sep)[-1]: what follows the last sep, all of s when it has none.
SplitLast(s, sep) ==
    LET at == { i \in 1..Len(s) : s[i] = sep }
    IN  IF at = {} THEN s
        ELSE SubSeq(s, 1 + (CHOOSE i \in at : \A j \in at : j <= i), Len(s))

\* s.split(sep)[0]: what precedes the first sep, all of s when it has none.
SplitFirst(s, sep) ==
    LET at == { i \in 1..Len(s) : s[i] = sep }
    IN  IF at = {} THEN s
        ELSE SubSeq(s, 1, (CHOOSE i \in at : \A j \in at : i <= j) - 1)

Digits == <<"0", "1", "2", "3", "4", "5", "6", "7", "8", "9">>

IsDigit(c) == \E d \in 1..10 : Digits[d] = c

DigitValue(c) == (CHOOSE d \in 1..10 : Digits[d] = c) - 1

\* str(n) for n >= 0: the decimal digits, without padding.
RECURSIVE IntToStr(_)
IntToStr(n) ==
    IF n < 10 THEN <<Digits[n + 1]>>
    ELSE IntToStr(n \div 10) \o <<Digits[(n % 10) + 1]>>

\* int(s) for a string of decimal digits; ValueError otherwise.
ValueError == -1

RECURSIVE DigitsToInt(_, _)
DigitsToInt(s, acc) ==
    IF s = EMPTY THEN acc
    ELSE DigitsToInt(Tail(s), 10 * acc + DigitValue(Head(s)))

StrToInt(s) ==
    IF s # EMPTY /\ \A i \in 1..Len(s) : IsDigit(s[i])
    THEN DigitsToInt(s, 0) ELSE ValueError

----------------------------------------------------------------------------
(* create_record_hash *)

\* hashlib.md5(...).hexdigest(): a deterministic digest of the key string.
\* Digest collisions are left out: distinct key strings get distinct digests.
md5_hexdigest(key) == [md5 |-> key]

\* The f-string of line 65: the four identity fields joined by "-".
key_fields(record) ==
    Get(record, "address") \o <<"-">> \o Get(record, "transactionDate")
        \o <<"-">> \o Get(record, "price") \o <<"-">> \o Get(record, "parcelRef")

\* A key string that also reads a descriptive field.
key_fields_with_type(record) ==
    key_fields(record) \o <<"-">> \o Get(record, "propertyType")

create_record_hash_typed(record) == md5_hexdigest(key_fields_with_type(record))

create_record_hash(record) == md5_hexdigest(key_fields(record))

----------------------------------------------------------------------------
(* extract_multiple_transactions *)

\* What an out-of-range features[idx] raises.
IndexError == <<"IndexError">>

\* The same exception leaving extract_multiple_transactions, in place of the
\* list of transactions.
RaisedIndexError == <<[exception |-> IndexError]>>

\* features[idx] for a Python list (0-based) of cells, each given by its text.
PyIndex(features, idx) ==
    IF idx < Len(features) THEN features[idx + 1] ELSE IndexError

\* safe_get with the guard off by one (len(features) >= idx).
safe_get_off_by_one(features, idx) ==
    IF Len(features) >= idx
    THEN (IF PyIndex(features, idx) = IndexError
          THEN IndexError ELSE Strip(PyIndex(features, idx)))
    ELSE EMPTY

safe_get(features, idx) ==
    IF Len(features) > idx THEN Strip(PyIndex(features, idx)) ELSE EMPTY

\* The additional transaction with both values of the pair written over the
\* base row, empty or not.
additional_transaction_overwrites(base_row_data, transaction_date, transaction_price) ==
    [k \in DOMAIN base_row_data \cup {"transactionDate", "price"} |->
        IF k = "transactionDate" THEN transaction_date
        ELSE IF k = "price" THEN transaction_price
        ELSE base_row_data[k]]

\* One additional transaction: the base row with the non-empty values of the
\* pair written over its date and price (lines 113-119).
additional_transaction(base_row_data, transaction_date, transaction_price) ==
    LET dated == IF transaction_date # EMPTY
                 THEN [k \in DOMAIN base_row_data \cup {"transactionDate"} |->
                         IF k = "transactionDate" THEN transaction_date
                         ELSE base_row_data[k]]
                 ELSE base_row_data
    IN  IF transaction_price # EMPTY
        THEN [k \in DOMAIN dated \cup {"price"} |->
                IF k = "price" THEN transaction_price ELSE dated[k]]
        ELSE dated

\* The while loop of lines 100-122; the result is the list of transactions,
\* or RaisedIndexError when a cell read raises.
RECURSIVE extract_loop(_, _, _, _)
extract_loop(features, base_row_data, transaction_index, transactions) ==
    LET date_idx == 8 + (transaction_index * 2)
        price_idx == 9 + (transaction_index * 2)
        transaction_date == safe_get(features, date_idx)
        transaction_price == safe_get(features, price_idx)
    IN  IF transaction_date = IndexError \/ transaction_price = IndexError
        THEN RaisedIndexError
        ELSE IF transaction_date = EMPTY /\ transaction_price = EMPTY
        THEN transactions
        ELSE extract_loop(features, base_row_data, transaction_index + 1,
                 Append(transactions,
                        additional_transaction(base_row_data, transaction_date,
                                               transaction_price)))

\* The loop reading the pairs at consecutive positions (8+i, 9+i).
RECURSIVE extract_loop_stride_one(_, _, _, _)
extract_loop_stride_one(features, base_row_data, transaction_index, transactions) ==
    LET transaction_date == safe_get(features, 8 + transaction_index)
        transaction_price == safe_get(features, 9 + transaction_index)
    IN  IF transaction_date = EMPTY /\ transaction_price = EMPTY
        THEN transactions
        ELSE extract_loop_stride_one(features, base_row_data, transaction_index + 1,
                 Append(transactions,
                        additional_transaction(base_row_data, transaction_date,
                                               transaction_price)))

\* The loop passing over a fully-empty pair instead of stopping at it, until
\* the cells end.
RECURSIVE extract_loop_skipping(_, _, _, _)
extract_loop_skipping(features, base_row_data, transaction_index, transactions) ==
    LET transaction_date == safe_get(features, 8 + (transaction_index * 2))
        transaction_price == safe_get(features, 9 + (transaction_index * 2))
    IN  IF 8 + (transaction_index * 2) >= Len(features)
        THEN transactions
        ELSE extract_loop_skipping(features, base_row_data, transaction_index + 1,
                 IF transaction_date = EMPTY /\ transaction_price = EMPTY
                 THEN transactions
                 ELSE Append(transactions,
                             additional_transaction(base_row_data, transaction_date,
                                                    transaction_price)))

extract_multiple_transactions_skipping(features, base_row_data) ==
    extract_loop_skipping(features, base_row_data, 0, <<base_row_data>>)

extract_multiple_transactions_stride_one(features, base_row_data) ==
    extract_loop_stride_one(features, base_row_data, 0, <<base_row_data>>)

extract_multiple_transactions(features, base_row_data) ==
    extract_loop(features, base_row_data, 0, <<base_row_data>>)

----------------------------------------------------------------------------
(* The checkpoint files: save_checkpoint and load_latest_checkpoint *)

\* Records appended between two periodic saves.  The source sets 100
\* (line 36); the model runs with a small interval.
CHECKPOINT_INTERVAL == 2

\* Pages processed per session at most.  The source sets 100 (line 40); the
\* model runs with a small limit.
MAX_PAGES == 2

MAX_WORKERS == 1

\* The last second of the modelled minute.
MaxClock == 1

\* datetime.now(): a second not before the one read last.
ClockReadings(clock) == clock..MaxClock

CheckpointPrefix == <<"c", "h", "e", "c", "k", "p", "o", "i", "n", "t", "_">>

JsonSuffix == <<".", "j", "s", "o", "n">>

TwoDigits(n) == <<Digits[(n \div 10) + 1], Digits[(n % 10) + 1]>>

\* datetime.now().strftime("%Y%m%d_%H%M%S"), the clock being the seconds of
\* the minute 12:00 of 2024-01-01.
strftime(clock) == <<"2", "0", "2", "4", "0", "1", "0", "1", "_", "1", "2", "0", "0">> \o TwoDigits(clock)

\* The file name of line 131 (within CHECKPOINT_DIR).
checkpoint_file(neighborhood, timestamp, checkpoint_num) ==
    CheckpointPrefix \o neighborhood \o <<"_">> \o timestamp \o <<"_">>
        \o IntToStr(checkpoint_num) \o JsonSuffix

\* list(seen_hashes): the elements of the set in some order.
RECURSIVE SetToList(_)
SetToList(S) ==
    IF S = {} THEN <<>>
    ELSE LET x == CHOOSE y \in S : TRUE IN <<x>> \o SetToList(S \ {x})

Range(list) == { list[k] : k \in 1..Len(list) }

\* The contents of a file: a JSON object, a JSON array, or text that
\* json.load rejects (a file cut short).
JsonDict(value) == [json |-> "dict", value |-> value]
JsonList(value) == [json |-> "list", value |-> <<value>>]
Truncated == [json |-> "invalid", value |-> <<>>]

\* checkpoint_data with record_count taken from the hash set.
checkpoint_data_count_hashes(data, seen_hashes, timestamp) ==
    [data |-> data, seen_hashes |-> SetToList(seen_hashes),
     timestamp |-> timestamp, record_count |-> Cardinality(seen_hashes)]

\* The dict of lines 132-137.
checkpoint_data(data, seen_hashes, timestamp) ==
    [data |-> data, seen_hashes |-> SetToList(seen_hashes),
     timestamp |-> timestamp, record_count |-> Len(data)]

\* A write that clears the directory of the older files.
WriteFile_clearing(dir, name, content) == [f \in {name} |-> content]

\* open(name, 'w') and a complete write: the file is created or replaced.
WriteFile(dir, name, content) ==
    [f \in DOMAIN dir \cup {name} |-> IF f = name THEN content ELSE dir[f]]

\* save_checkpoint: the directory after the call.
save_checkpoint(dir, data, seen_hashes, checkpoint_num, neighborhood, clock) ==
    WriteFile(dir,
              checkpoint_file(neighborhood, strftime(clock), checkpoint_num),
              JsonDict(checkpoint_data(data, seen_hashes, strftime(clock))))

\* save_checkpoint cut off by the death of the process after open() created
\* the file and before json.dump wrote all of it.
save_checkpoint_killed(dir, checkpoint_num, neighborhood, clock) ==
    WriteFile(dir,
              checkpoint_file(neighborhood, strftime(clock), checkpoint_num),
              Truncated)

checkpoint_files(dir, neighborhood) ==
    { f \in DOMAIN dir :
        StartsWith(f, CheckpointPrefix \o neighborhood \o <<"_">>) }

\* max(checkpoint_files): the largest name in string order.
Max(files) == CHOOSE f \in files : \A g \in files : g = f \/ StrLess(g, f)

\* int(latest_checkpoint.split('_')[-1].split('.')[0]) of line 151.
checkpoint_num_of(latest_checkpoint) ==
    StrToInt(SplitFirst(SplitLast(latest_checkpoint, "_"), "."))

\* The old format read with the new format's default: no hashes.
legacy_seen_hashes_none(data) == {}

\* The set comprehension of line 161.
legacy_seen_hashes(data) == { create_record_hash(data[k]) : k \in 1..Len(data) }

\* What load_latest_checkpoint returns; none stands for data being None,
\* raised for the ValueError of line 151 leaving the function.
Loaded(data, seen_hashes, checkpoint_num, latest_checkpoint) ==
    [none |-> FALSE, raised |-> FALSE, data |-> data, seen_hashes |-> seen_hashes,
     checkpoint_num |-> checkpoint_num, latest_checkpoint |-> latest_checkpoint]

NothingLoaded(latest_checkpoint) ==
    [none |-> TRUE, raised |-> FALSE, data |-> <<>>, seen_hashes |-> {},
     checkpoint_num |-> 0, latest_checkpoint |-> latest_checkpoint]

LoadRaised(latest_checkpoint) ==
    [none |-> TRUE, raised |-> TRUE, data |-> <<>>, seen_hashes |-> {},
     checkpoint_num |-> 0, latest_checkpoint |-> latest_checkpoint]

\* The read that turns to another file of the directory when json.load
\* rejects the latest.
read_checkpoint_falls_back(dir, latest_checkpoint) ==
    LET readable == { f \in DOMAIN dir : dir[f].json # "invalid" }
        file == IF dir[latest_checkpoint].json = "invalid" /\ readable # {}
                THEN CHOOSE f \in readable : TRUE
                ELSE latest_checkpoint
        content == dir[file]
    IN  IF content.json = "invalid" THEN NothingLoaded(latest_checkpoint)
        ELSE IF content.json = "list"
        THEN Loaded(content.value[1], legacy_seen_hashes(content.value[1]),
                    checkpoint_num_of(file), latest_checkpoint)
        ELSE Loaded(content.value.data, Range(content.value.seen_hashes),
                    checkpoint_num_of(file), latest_checkpoint)

\* Lines 153-172: the file read in either format; a file json.load rejects
\* gives (None, set(), 0).
read_checkpoint(dir, latest_checkpoint) ==
    LET content == dir[latest_checkpoint]
        checkpoint_num == checkpoint_num_of(latest_checkpoint)
    IN  IF content.json = "invalid" THEN NothingLoaded(latest_checkpoint)
        ELSE IF content.json = "list"
        THEN Loaded(content.value[1], legacy_seen_hashes(content.value[1]),
                    checkpoint_num, latest_checkpoint)
        ELSE Loaded(content.value.data, Range(content.value.seen_hashes),
                    checkpoint_num, latest_checkpoint)

\* load_latest_checkpoint.
load_latest_checkpoint(dir, neighborhood) ==
    LET files == checkpoint_files(dir, neighborhood)
    IN  IF files = {} THEN NothingLoaded(EMPTY)
        ELSE IF checkpoint_num_of(Max(files)) = ValueError
        THEN LoadRaised(Max(files))
        ELSE read_checkpoint(dir, Max(files))

----------------------------------------------------------------------------
(* Inputs of the two functions *)

\* The texts an identity field takes in SpecHash.
HashVals == {EMPTY, <<"a">>, <<"-">>}

\* The descriptive fields of a record: none, one, or all seven.
Extras ==
    { [k \in {} |-> EMPTY],
      [propertyType |-> <<"x">>],
      [area |-> <<"5">>, propertyType |-> <<"y">>, rooms |-> <<"3">>,
       floor |-> <<"1">>, buildYear |-> <<"9">>, pricePerArea |-> <<"4">>,
       floorsInBuilding |-> <<"2">>] }

IdentityFields == {"address", "transactionDate", "price", "parcelRef"}

HashRecords ==
    { [k \in IdentityFields \cup DOMAIN e |->
          IF k \in IdentityFields THEN id[k] ELSE e[k]] :
      id \in [IdentityFields -> HashVals], e \in Extras }

\* The longest tail of detail cells after position 7.
MaxTail == 4

\* The texts of a detail cell: empty, blank, and two values with blanks around.
CellTexts == {EMPTY, <<" ">>, <<"7">>, <<" ", "8", " ">>}

\* Detail-cell lists: every length below 8, and 8 cells followed by every tail.
FeatureLists ==
    { [i \in 1..n |-> <<"h">>] : n \in 0..7 }
    \cup { [i \in 1..8 |-> <<"h">>] \o tail :
             tail \in UNION { [1..n -> CellTexts] : n \in 0..MaxTail } }

\* Base rows: the eight cells of lines 301-310, the same with the three
\* fields of lines 329-333 and an empty date and price, and the empty dict.
BaseRows ==
    { [address |-> <<"a">>, area |-> <<"5">>, transactionDate |-> <<"1">>,
       price |-> <<"2">>, parcelRef |-> <<"g">>, propertyType |-> <<"t">>,
       rooms |-> <<"3">>, floor |-> <<"0">>],
      [address |-> <<"a">>, area |-> <<"5">>, transactionDate |-> EMPTY,
       price |-> EMPTY, parcelRef |-> <<"g">>, propertyType |-> <<"t">>,
       rooms |-> <<"3">>, floor |-> <<"0">>, buildYear |-> <<"9">>,
       pricePerArea |-> <<"4">>, floorsInBuilding |-> <<"2">>],
      [k \in {} |-> EMPTY] }

----------------------------------------------------------------------------
(* The pages of the site *)

\* Rows of a listing page at most, runs of the program, and errors raised
\* over all runs.
MaxRows == 2
MaxRuns == 2
MaxFaults == 1

NbA == <<"A">>
NbB == <<"B">>
NbAB == <<"A", "_", "B">>

\* The nine mainTable__cell texts of a row (positions 0 to 8).
MainCells(address, date, price) ==
    <<EMPTY, address, <<"5">>, date, price, <<"g">>, <<"t">>, <<"3">>, <<"0">>>>

\* The innerTable__cell texts of an expanded row: eight cells, of which 3, 4
\* and 5 are read at lines 330-332, then the (date, price) pairs.
DetailCells(pairs) ==
    <<<<"h">>, <<"h">>, <<"h">>, <<"9">>, <<"4">>, <<"2">>, <<"h">>, <<"h">>>> \o pairs

\* A data row: its cells, whether it has a collapseArrow, whether expanding
\* it shows an innerTablesContainer, and the cells of that container.
Row(cells, arrow, container, detail) ==
    [cells |-> cells, arrow |-> arrow, container |-> container, detail |-> detail]

RowPlain == Row(MainCells(<<"a">>, <<"1">>, <<"2">>), TRUE, TRUE, DetailCells(<<>>))
RowPair ==
    Row(MainCells(<<"b">>, <<"1">>, <<"2">>), TRUE, TRUE,
        DetailCells(<<<<" ", "7">>, <<"8", " ">>>>))
RowNoArrow == Row(MainCells(<<"c">>, <<"1">>, <<"2">>), FALSE, FALSE, <<>>)
RowNoContainer == Row(MainCells(<<"d">>, <<"1">>, <<"2">>), TRUE, FALSE, <<>>)

RowKinds == {RowPlain, RowPair, RowNoArrow, RowNoContainer}

\* Row k of a page of distinct two-transaction rows.
RowNumbered(k) ==
    Row(MainCells(IntToStr(k), <<"1">>, <<"2">>), TRUE, TRUE,
        DetailCells(<<<<"7">>, <<"8">>>>))

\* A page is the list of its data rows (the header row is not listed); a site
\* is the list of its pages, each but the last with an enabled next button.
SitePages == UNION { [1..r -> RowKinds] : r \in 0..MaxRows }

Sites ==
    { <<page>> : page \in SitePages }
    \cup { <<<<r1>>, <<r2>>>> : r1 \in {RowPlain, RowPair}, r2 \in {RowPlain, RowPair} }
    \cup { [p \in 1..(MAX_PAGES + 1) |-> <<RowNumbered(p)>>] }


\* The sites of a worklist of two neighborhoods: two rows on one page, and
\* the same rows on two pages.
PairSites == { <<<<RowPair, RowPlain>>>>, <<<<RowPlain>>, <<RowPair>>>> }

\* A checkpoint directory left by an older version of the program: one file in
\* the old format, a bare list of records.
LegacyData ==
    << [address |-> <<"a">>, area |-> <<"5">>, transactionDate |-> <<"1">>,
        price |-> <<"2">>, parcelRef |-> <<"g">>, propertyType |-> <<"t">>,
        rooms |-> <<"3">>, floor |-> <<"0">>],
       [address |-> <<"z">>, transactionDate |-> <<"1">>, price |-> <<"2">>] >>

LegacyDir ==
    WriteFile(<<>>, checkpoint_file(NbA, <<"2", "0", "2", "3", "1", "2", "3", "1", "_", "2", "3", "5", "9", "5", "9">>, 1),
              JsonList(LegacyData))

PriorDirs == {<<>>, LegacyDir}

\* A checkpoint directory left by earlier sessions of this program whose last
\* save was the eighth; the older files have been cleared away.
EarlierData == <<[address |-> <<"z">>, transactionDate |-> <<"1">>, price |-> <<"2">>]>>

EarlierDir ==
    save_checkpoint(<<>>, EarlierData,
                    { create_record_hash(EarlierData[k]) : k \in 1..Len(EarlierData) },
                    8, NbA, 0)

\* The directory of LegacyDir after a session that resumed from it and was
\* killed inside its first save, one second before the modelled minute: the
\* second snapshot is cut short.
CutDir ==
    WriteFile(LegacyDir,
              checkpoint_file(NbA, <<"2", "0", "2", "4", "0", "1", "0", "1", "_", "1", "1", "5", "9", "5", "9">>, 2),
              Truncated)

----------------------------------------------------------------------------
(* process_neighborhood *)

\* The frame at return: the loop's own variables are gone; the accumulator,
\* the hash set and the counters are kept for the report of lines 411-416.
Returned(frame, result) ==
    [frame EXCEPT !.pc = "returned", !.result = result, !.has_next = TRUE,
                  !.page_num = 1, !.transactions = <<>>,
                  !.transactions_bound = FALSE, !.i = 1, !.retry = 0]

\* Lines 423-425: an exception reached the handler of the function, which
\* logs it and returns 0.
Raised(frame) == [Returned(frame, 0) EXCEPT !.error = TRUE]

Neighborhoods == DOMAIN local

\* The frame before the call.
IdleFrame ==
    [pc |-> "idle", all_data |-> <<>>, seen_hashes |-> {}, checkpoint_num |-> 0,
     records_since_last_checkpoint |-> 0, has_next |-> TRUE, page_num |-> 1,
     duplicates_found |-> 0, new_records_this_session |-> 0,
     transactions |-> <<>>, transactions_bound |-> FALSE, i |-> 1, retry |-> 0,
     result |-> 0, latest_checkpoint |-> EMPTY, error |-> FALSE]

NoSave == [saved |-> FALSE, data |-> <<>>, seen_hashes |-> {}, checkpoint_num |-> 0]

SaveOf(data, seen_hashes, checkpoint_num) ==
    [saved |-> TRUE, data |-> data, seen_hashes |-> seen_hashes,
     checkpoint_num |-> checkpoint_num]

NoPrevious == [ran |-> FALSE, new_records_this_session |-> 0, duplicates_found |-> 0]

\* The dict of lines 301-310.
base_row_data_of(features) ==
    [address |-> safe_get(features, 1), area |-> safe_get(features, 2),
     transactionDate |-> safe_get(features, 3), price |-> safe_get(features, 4),
     parcelRef |-> safe_get(features, 5), propertyType |-> safe_get(features, 6),
     rooms |-> safe_get(features, 7), floor |-> safe_get(features, 8)]

\* base_row_data.update(...) of lines 329-333.
with_details(base_row_data, expanded_features) ==
    [k \in DOMAIN base_row_data \cup {"buildYear", "pricePerArea", "floorsInBuilding"} |->
        IF k = "buildYear" THEN safe_get(expanded_features, 3)
        ELSE IF k = "pricePerArea" THEN safe_get(expanded_features, 4)
        ELSE IF k = "floorsInBuilding" THEN safe_get(expanded_features, 5)
        ELSE base_row_data[k]]

\* The loop body without line 357: the record is appended, its hash is not
\* added to the set.
dedup_step_hash_not_added(frame, transaction) ==
    LET record_hash == create_record_hash(transaction)
    IN  IF record_hash \in frame.seen_hashes
        THEN [frame EXCEPT !.duplicates_found = @ + 1]
        ELSE [frame EXCEPT !.all_data = Append(@, transaction),
                           !.records_since_last_checkpoint = @ + 1,
                           !.new_records_this_session = @ + 1]

\* The loop body putting a new record at the head of the list.
dedup_step_prepends(frame, transaction) ==
    LET record_hash == create_record_hash(transaction)
    IN  IF record_hash \in frame.seen_hashes
        THEN [frame EXCEPT !.duplicates_found = @ + 1]
        ELSE [frame EXCEPT !.all_data = <<transaction>> \o @,
                           !.seen_hashes = @ \cup {record_hash},
                           !.records_since_last_checkpoint = @ + 1,
                           !.new_records_this_session = @ + 1]

\* The loop body without the test of line 351: every transaction is appended.
dedup_step_always_appends(frame, transaction) ==
    [frame EXCEPT !.all_data = Append(@, transaction),
                  !.seen_hashes = @ \cup {create_record_hash(transaction)},
                  !.records_since_last_checkpoint = @ + 1,
                  !.new_records_this_session = @ + 1]

\* The body of the loop of lines 348-359 for one transaction.
dedup_step(frame, transaction) ==
    LET record_hash == create_record_hash(transaction)
    IN  IF record_hash \in frame.seen_hashes
        THEN [frame EXCEPT !.duplicates_found = @ + 1]
        ELSE [frame EXCEPT !.all_data = Append(@, transaction),
                           !.seen_hashes = @ \cup {record_hash},
                           !.records_since_last_checkpoint = @ + 1,
                           !.new_records_this_session = @ + 1]

\* The loop of lines 348-359.
RECURSIVE dedup(_, _)
dedup(frame, transactions) ==
    IF transactions = <<>> THEN frame
    ELSE dedup(dedup_step(frame, Head(transactions)), Tail(transactions))

\* What the browser does while a row is processed.
RowOutcomes ==
    {"ok", "raise_early", "raise_expand_early", "raise_expand_late",
     "raise_collapse", "raise_save", "killed_in_save"}

CurrentPage(n) == site[n][local[n].page_num]

\* Lines 322-341: the frame after the expansion of the row.
expanded(frame, row, outcome) ==
    LET base_row_data == base_row_data_of(row.cells)
        updated == with_details(base_row_data, row.detail)
        extracted == extract_multiple_transactions(row.detail, updated)
    IN  IF outcome = "raise_expand_early"
        THEN [frame EXCEPT !.transactions = <<base_row_data>>,
                           !.transactions_bound = TRUE]
        ELSE IF outcome = "raise_expand_late" \/ (row.container /\ extracted = RaisedIndexError)
        THEN [frame EXCEPT !.transactions = <<updated>>,
                           !.transactions_bound = TRUE]
        ELSE IF row.container
        THEN [frame EXCEPT !.transactions = extracted,
                           !.transactions_bound = TRUE]
        ELSE frame

\* Lines 361-365, the save having completed.
periodic_checkpoint(frame) ==
    IF frame.records_since_last_checkpoint >= CHECKPOINT_INTERVAL
    THEN [frame EXCEPT !.checkpoint_num = @ + 1,
                       !.records_since_last_checkpoint = 0]
    ELSE frame

\* The handler with a break in place of the continue: the page is left.
row_except_breaks(frame) == [frame EXCEPT !.pc = "final"]

\* Lines 367-369: the handler of the row's try logs and continues with the
\* next row, the frame as the error left it.
row_except(frame) == frame

\* The body of the loop of lines 293-369 for row i under the given outcome:
\* the frame after it, and whether save_checkpoint was reached at line 364.
row_effect(frame, row, outcome) ==
    LET next_row == [frame EXCEPT !.i = @ + 1]
        after_expand == expanded(next_row, row, outcome)
        after_dedup == dedup(after_expand, after_expand.transactions)
        skipped == \/ outcome \in {"raise_early", "raise_collapse"}
                   \/ ~row.arrow
                   \/ ~after_expand.transactions_bound
        reaches_save ==
            ~skipped /\ after_dedup.records_since_last_checkpoint >= CHECKPOINT_INTERVAL
    IN  [reaches_save |-> reaches_save,
         frame |->
            IF outcome = "raise_early" THEN row_except(next_row)
            ELSE IF ~row.arrow THEN next_row
            ELSE IF skipped THEN row_except(after_expand)
            ELSE IF outcome = "raise_save"
            THEN row_except([after_dedup EXCEPT !.checkpoint_num = @ + 1])
            ELSE IF outcome = "killed_in_save"
            THEN [after_dedup EXCEPT !.checkpoint_num = @ + 1]
            ELSE periodic_checkpoint(after_dedup)]

\* The outcomes the row admits.
row_admits(row, outcome, reaches_save) ==
    /\ outcome \in {"raise_expand_early", "raise_collapse"} => row.arrow
    /\ outcome = "raise_expand_late" => row.arrow /\ row.container
    /\ outcome \in {"raise_save", "killed_in_save"} => reaches_save

\* len(df_unique) of lines 405-418: the records that differ in the four
\* identity fields; 0 when nothing was collected.
unique_count(all_data) ==
    Cardinality({ [k \in IdentityFields |-> Get(all_data[j], k)] : j \in 1..Len(all_data) })

Active(n) == local[n].pc \notin {"idle", "returned", "done"}

\* The worker threads run while main() waits for them: before it returns,
\* and after a KeyboardInterrupt has taken it out of the loop of line 452
\* into the shutdown of the pool, which joins the workers.
WorkersRun == process \in {"running", "interrupted"}

\* Lines 222-235: the call starts on a free worker and loads the checkpoint.
Start(n) ==
    /\ WorkersRun
    /\ local[n].pc = "idle"
    /\ Cardinality({ m \in Neighborhoods : Active(m) }) < max_workers
    /\ LET loaded == load_latest_checkpoint(checkpoint_dir, n)
       IN  local' = [local EXCEPT ![n] =
              IF loaded.raised
              THEN Raised([@ EXCEPT !.latest_checkpoint = loaded.latest_checkpoint])
              ELSE [@ EXCEPT !.pc = "opening",
                             !.all_data = loaded.data,
                             !.seen_hashes = loaded.seen_hashes,
                             !.checkpoint_num = loaded.checkpoint_num,
                             !.latest_checkpoint = loaded.latest_checkpoint]]
    /\ UNCHANGED <<probeVars, poolVars, site, checkpoint_dir, now, results, process, run,
                   faults, last_save, previous>>

\* Lines 237-257: the browser opens the site and the search succeeds.
Open(n) ==
    /\ WorkersRun
    /\ local[n].pc = "opening"
    /\ local' = [local EXCEPT ![n] =
          [@ EXCEPT !.pc = "page", !.records_since_last_checkpoint = 0,
                    !.has_next = TRUE, !.page_num = 1, !.duplicates_found = 0,
                    !.new_records_this_session = 0]]
    /\ UNCHANGED <<probeVars, poolVars, site, checkpoint_dir, now, results, process, run,
                   faults, last_save, previous>>

\* The early returns returning 0 in place of len(all_data).
OpenFails_returns_zero(n) ==
    /\ WorkersRun
    /\ local[n].pc = "opening"
    /\ faults < MaxFaults
    /\ faults' = faults + 1
    /\ local' = [local EXCEPT ![n] = Returned(@, 0)]
    /\ UNCHANGED <<probeVars, poolVars, site, checkpoint_dir, now, results, process, run,
                   last_save, previous>>

\* Lines 244-251: the first page does not load or the search fails.
OpenFails(n) ==
    /\ WorkersRun
    /\ local[n].pc = "opening"
    /\ faults < MaxFaults
    /\ faults' = faults + 1
    /\ local' = [local EXCEPT ![n] = Returned(@, Len(local[n].all_data))]
    /\ UNCHANGED <<probeVars, poolVars, site, checkpoint_dir, now, results, process, run,
                   last_save, previous>>

\* Lines 238-241 raise (no browser, no network): the handler of line 423.
OpenRaises(n) ==
    /\ WorkersRun
    /\ local[n].pc = "opening"
    /\ faults < MaxFaults
    /\ faults' = faults + 1
    /\ local' = [local EXCEPT ![n] = Raised(@)]
    /\ UNCHANGED <<probeVars, poolVars, site, checkpoint_dir, now, results, process, run,
                   last_save, previous>>

\* Line 259: the loop condition is false.
LoopExit(n) ==
    /\ WorkersRun
    /\ local[n].pc = "page"
    /\ ~(local[n].has_next /\ local[n].page_num <= MAX_PAGES)
    /\ local' = [local EXCEPT ![n] = [@ EXCEPT !.pc = "final"]]
    /\ UNCHANGED <<probeVars, poolVars, site, checkpoint_dir, now, results, process, run,
                   faults, last_save, previous>>

\* Lines 259-268: the loop is entered and the page has loaded.
PageLoad(n) ==
    /\ WorkersRun
    /\ local[n].pc = "page"
    /\ local[n].has_next /\ local[n].page_num <= MAX_PAGES
    /\ local' = [local EXCEPT ![n] = [@ EXCEPT !.pc = "find_table", !.retry = 0]]
    /\ UNCHANGED <<probeVars, poolVars, site, checkpoint_dir, now, results, process, run,
                   faults, last_save, previous>>

\* Lines 263-265: the page does not load; break.
PageLoadFails(n) ==
    /\ WorkersRun
    /\ local[n].pc = "page"
    /\ local[n].has_next /\ local[n].page_num <= MAX_PAGES
    /\ faults < MaxFaults
    /\ faults' = faults + 1
    /\ local' = [local EXCEPT ![n] = [@ EXCEPT !.pc = "final"]]
    /\ UNCHANGED <<probeVars, poolVars, site, checkpoint_dir, now, results, process, run,
                   last_save, previous>>

\* Lines 269-290: an attempt finds the table and the rows are listed.
TableFound(n) ==
    /\ WorkersRun
    /\ local[n].pc = "find_table"
    /\ local[n].retry < 3
    /\ local' = [local EXCEPT ![n] = [@ EXCEPT !.pc = "rows", !.i = 1, !.retry = 0]]
    /\ UNCHANGED <<probeVars, poolVars, site, checkpoint_dir, now, results, process, run,
                   faults, last_save, previous>>

\* The lookup with a fourth attempt.
TableAttemptFails_four(n) ==
    /\ WorkersRun
    /\ local[n].pc = "find_table"
    /\ local[n].retry < 3
    /\ local[n].retry > 0 \/ faults < MaxFaults
    /\ faults' = IF local[n].retry = 0 THEN faults + 1 ELSE faults
    /\ local' = [local EXCEPT ![n] =
          IF local[n].retry = 3
          THEN [@ EXCEPT !.pc = "final", !.retry = 0]
          ELSE [@ EXCEPT !.retry = @ + 1]]
    /\ UNCHANGED <<probeVars, poolVars, site, checkpoint_dir, now, results, process, run,
                   last_save, previous>>

\* Lines 269-282: an attempt finds no table or a stale one; after the third
\* the loop is left by break.  The attempts of one page count as one error.
TableAttemptFails(n) ==
    /\ WorkersRun
    /\ local[n].pc = "find_table"
    /\ local[n].retry < 3
    /\ local[n].retry > 0 \/ faults < MaxFaults
    /\ faults' = IF local[n].retry = 0 THEN faults + 1 ELSE faults
    /\ local' = [local EXCEPT ![n] =
          IF local[n].retry + 1 = 3
          THEN [@ EXCEPT !.pc = "final", !.retry = 0]
          ELSE [@ EXCEPT !.retry = @ + 1]]
    /\ UNCHANGED <<probeVars, poolVars, site, checkpoint_dir, now, results, process, run,
                   last_save, previous>>

\* Lines 285-290: listing the rows raises; break.
RowsRaise(n) ==
    /\ WorkersRun
    /\ local[n].pc = "find_table"
    /\ local[n].retry < 3
    /\ faults < MaxFaults
    /\ faults' = faults + 1
    /\ local' = [local EXCEPT ![n] = [@ EXCEPT !.pc = "final", !.retry = 0]]
    /\ UNCHANGED <<probeVars, poolVars, site, checkpoint_dir, now, results, process, run,
                   last_save, previous>>

\* Line 271 raises something other than a stale reference: it leaves the
\* page loop for the handler of line 423.
TableLookupRaises(n) ==
    /\ WorkersRun
    /\ local[n].pc = "find_table"
    /\ local[n].retry < 3
    /\ faults < MaxFaults
    /\ faults' = faults + 1
    /\ local' = [local EXCEPT ![n] = Raised(@)]
    /\ UNCHANGED <<probeVars, poolVars, site, checkpoint_dir, now, results, process, run,
                   last_save, previous>>

\* Lines 293-369: one iteration of the row loop.
RowStep(n, outcome) ==
    /\ WorkersRun
    /\ local[n].pc = "rows"
    /\ local[n].i <= Len(CurrentPage(n))
    /\ \E clock \in ClockReadings(now) :
          LET row == CurrentPage(n)[local[n].i]
              effect == row_effect(local[n], row, outcome)
              frame == effect.frame
              saves == outcome # "raise_save" /\ effect.reaches_save
          IN  /\ row_admits(row, outcome, effect.reaches_save)
              /\ outcome # "ok" => faults < MaxFaults
              /\ ~saves => clock = now
              /\ now' = clock
              /\ faults' = IF outcome = "ok" THEN faults ELSE faults + 1
              /\ local' = [local EXCEPT ![n] = frame]
              /\ checkpoint_dir' =
                    IF saves
                    THEN save_checkpoint(checkpoint_dir, frame.all_data,
                                         frame.seen_hashes, frame.checkpoint_num, n, clock)
                    ELSE checkpoint_dir
              /\ last_save' =
                    IF saves
                    THEN [last_save EXCEPT ![n] =
                            SaveOf(frame.all_data, frame.seen_hashes, frame.checkpoint_num)]
                    ELSE last_save
    /\ UNCHANGED <<probeVars, poolVars, site, results, process, run, previous>>

\* One iteration of the loop of line 293, whatever happens in it.
ProcessRow(n) == \E outcome \in RowOutcomes \ {"killed_in_save"} : RowStep(n, outcome)

\* Line 293: the rows of the page are exhausted.
RowsDone(n) ==
    /\ WorkersRun
    /\ local[n].pc = "rows"
    /\ local[n].i > Len(CurrentPage(n))
    /\ local' = [local EXCEPT ![n] = [@ EXCEPT !.pc = "paginate", !.i = 1]]
    /\ UNCHANGED <<probeVars, poolVars, site, checkpoint_dir, now, results, process, run,
                   faults, last_save, previous>>

\* The click of line 383 without the increment of line 387: the loop goes
\* round on the same page number.
Paginate_no_increment(n) ==
    /\ WorkersRun
    /\ local[n].pc = "paginate"
    /\ local' = [local EXCEPT ![n] =
          IF local[n].page_num < Len(site[n])
          THEN [@ EXCEPT !.pc = "page", !.has_next = (local[n].page_num <= MAX_PAGES)]
          ELSE [@ EXCEPT !.pc = "page", !.has_next = FALSE]]
    /\ UNCHANGED <<probeVars, poolVars, site, checkpoint_dir, now, results, process, run,
                   faults, last_save, previous>>

\* Lines 371-392: the next button is clicked when the page has one that is
\* displayed and enabled.
Paginate(n) ==
    /\ WorkersRun
    /\ local[n].pc = "paginate"
    /\ local' = [local EXCEPT ![n] =
          IF local[n].page_num < Len(site[n])
          THEN [@ EXCEPT !.pc = "page", !.page_num = @ + 1,
                         !.has_next = (local[n].page_num + 1 <= MAX_PAGES)]
          ELSE [@ EXCEPT !.pc = "page", !.has_next = FALSE]]
    /\ UNCHANGED <<probeVars, poolVars, site, checkpoint_dir, now, results, process, run,
                   faults, last_save, previous>>

\* Lines 393-395: looking for the button or clicking it raises.
PaginateRaises(n) ==
    /\ WorkersRun
    /\ local[n].pc = "paginate"
    /\ faults < MaxFaults
    /\ faults' = faults + 1
    /\ local' = [local EXCEPT ![n] = [@ EXCEPT !.pc = "page", !.has_next = FALSE]]
    /\ UNCHANGED <<probeVars, poolVars, site, checkpoint_dir, now, results, process, run,
                   last_save, previous>>

\* Lines 397-421: the final checkpoint, the CSV and the returned count.
Final(n) ==
    /\ WorkersRun
    /\ local[n].pc = "final"
    /\ \E clock \in ClockReadings(now) :
       LET saves == local[n].records_since_last_checkpoint > 0
           checkpoint_num == IF saves THEN local[n].checkpoint_num + 1
                             ELSE local[n].checkpoint_num
       IN  /\ ~saves => clock = now
           /\ now' = clock
           /\ local' = [local EXCEPT ![n] =
                 Returned([@ EXCEPT !.checkpoint_num = checkpoint_num],
                          IF local[n].all_data # <<>>
                          THEN unique_count(local[n].all_data) ELSE 0)]
           /\ checkpoint_dir' =
                 IF saves
                 THEN save_checkpoint(checkpoint_dir, local[n].all_data,
                                      local[n].seen_hashes, checkpoint_num, n, clock)
                 ELSE checkpoint_dir
           /\ last_save' =
                 IF saves
                 THEN [last_save EXCEPT ![n] =
                         SaveOf(local[n].all_data, local[n].seen_hashes, checkpoint_num)]
                 ELSE last_save
    /\ UNCHANGED <<probeVars, poolVars, site, results, process, run, faults, previous>>

\* Lines 397-400 raise in save_checkpoint (the file cannot be written): the
\* handler of line 423 returns 0.
FinalSaveRaises(n) ==
    /\ WorkersRun
    /\ local[n].pc = "final"
    /\ local[n].records_since_last_checkpoint > 0
    /\ faults < MaxFaults
    /\ faults' = faults + 1
    /\ local' = [local EXCEPT ![n] = Raised([@ EXCEPT !.checkpoint_num = @ + 1])]
    /\ UNCHANGED <<probeVars, poolVars, site, checkpoint_dir, now, results, process, run,
                   last_save, previous>>

\* The loop of lines 452-461 recording nothing for a crawl that ended in an
\* error.
Collect_skips_errors(n) ==
    /\ process = "running"
    /\ local[n].pc = "returned"
    /\ local' = [local EXCEPT ![n] = [@ EXCEPT !.pc = "done"]]
    /\ results' = IF local[n].error THEN results
                  ELSE [m \in DOMAIN results \cup {n} |->
                          IF m = n THEN local[n].result ELSE results[m]]
    /\ UNCHANGED <<probeVars, poolVars, site, checkpoint_dir, now, process, run, faults,
                   last_save, previous>>

\* Lines 452-458 of main(): the future of n has completed.
Collect(n) ==
    /\ process = "running"
    /\ local[n].pc = "returned"
    /\ local' = [local EXCEPT ![n] = [@ EXCEPT !.pc = "done"]]
    /\ results' = [m \in DOMAIN results \cup {n} |->
                      IF m = n THEN local[n].result ELSE results[m]]
    /\ UNCHANGED <<probeVars, poolVars, site, checkpoint_dir, now, process, run, faults,
                   last_save, previous>>

\* main() returns and the program ends.
Exit ==
    /\ process = "running"
    /\ \A n \in Neighborhoods : local[n].pc = "done"
    /\ process' = "exited"
    /\ UNCHANGED <<probeVars, poolVars, site, checkpoint_dir, now, local, results, run,
                   faults, last_save, previous>>

\* Lines 472-475: a KeyboardInterrupt reaches the main thread while it waits
\* in the loop of line 452 with crawls in flight; it leaves the with block of
\* line 444, whose exit joins the workers.  The workers are not interrupted.
Interrupt ==
    /\ process = "running"
    /\ \E n \in Neighborhoods : Active(n)
    /\ process' = "interrupted"
    /\ UNCHANGED <<probeVars, poolVars, site, checkpoint_dir, now, local, results, run,
                   faults, last_save, previous>>

\* Lines 475-476: the workers have returned, the pool is shut down, the
\* handler logs and the program ends.
ExitInterrupted ==
    /\ process = "interrupted"
    /\ \A n \in Neighborhoods : local[n].pc \in {"returned", "done"}
    /\ process' = "stopped"
    /\ UNCHANGED <<probeVars, poolVars, site, checkpoint_dir, now, local, results, run,
                   faults, last_save, previous>>

\* The program is started again over the same site and the files it left.
Rerun ==
    /\ process \in {"exited", "killed"}
    /\ run < MaxRuns
    /\ run' = run + 1
    /\ process' = "running"
    /\ previous' = [n \in Neighborhoods |->
          [ran |-> TRUE,
           new_records_this_session |-> local[n].new_records_this_session,
           duplicates_found |-> local[n].duplicates_found]]
    /\ local' = [n \in Neighborhoods |-> IdleFrame]
    /\ results' = <<>>
    /\ UNCHANGED <<probeVars, poolVars, site, checkpoint_dir, now, faults, last_save>>

\* The process dies (power loss, SIGKILL) inside save_checkpoint at line 364,
\* between open() and the end of json.dump.
KilledInPeriodicSave(n) ==
    /\ process = "running"
    /\ local[n].pc = "rows"
    /\ local[n].i <= Len(CurrentPage(n))
    /\ faults < MaxFaults
    /\ faults' = faults + 1
    /\ \E clock \in ClockReadings(now) :
       LET effect == row_effect(local[n], CurrentPage(n)[local[n].i], "killed_in_save")
           frame == effect.frame
       IN  /\ effect.reaches_save
           /\ now' = clock
           /\ local' = [local EXCEPT ![n] = frame]
           /\ checkpoint_dir' =
                 save_checkpoint_killed(checkpoint_dir, frame.checkpoint_num, n, clock)
    /\ process' = "killed"
    /\ UNCHANGED <<probeVars, poolVars, site, results, run, last_save, previous>>

\* The same inside the final save_checkpoint at line 400.
KilledInFinalSave(n) ==
    /\ process = "running"
    /\ local[n].pc = "final"
    /\ local[n].records_since_last_checkpoint > 0
    /\ faults < MaxFaults
    /\ faults' = faults + 1
    /\ local' = [local EXCEPT ![n] = [@ EXCEPT !.checkpoint_num = @ + 1]]
    /\ \E clock \in ClockReadings(now) :
          /\ now' = clock
          /\ checkpoint_dir' =
                save_checkpoint_killed(checkpoint_dir, local[n].checkpoint_num + 1,
                                       n, clock)
    /\ process' = "killed"
    /\ UNCHANGED <<probeVars, poolVars, site, results, run, last_save, previous>>

----------------------------------------------------------------------------
(* Spec: the program run, and run again, on one neighborhood *)

IdleProbe == args = <<>> /\ ret = <<>>

IdleCrawl ==
    /\ site = <<>>
    /\ checkpoint_dir = <<>>
    /\ now = 0
    /\ local = <<>>
    /\ results = <<>>
    /\ process = "exited"
    /\ run = MaxRuns
    /\ faults = MaxFaults
    /\ last_save = <<>>
    /\ previous = <<>>
    /\ max_workers = MAX_WORKERS
    /\ checkpoint_lock = {}
    /\ logging_lock = {}

Init ==
    /\ IdleProbe
    /\ site \in [{NbA} -> Sites]
    /\ checkpoint_dir \in PriorDirs
    /\ now = 0
    /\ local = [n \in {NbA} |-> IdleFrame]
    /\ results = <<>>
    /\ process = "running"
    /\ run = 1
    /\ faults = 0
    /\ last_save = [n \in {NbA} |-> NoSave]
    /\ previous = [n \in {NbA} |-> NoPrevious]
    /\ max_workers = MAX_WORKERS
    /\ checkpoint_lock = {}
    /\ logging_lock = {}

Next ==
    \/ \E n \in Neighborhoods : Start(n)
    \/ \E n \in Neighborhoods : Open(n)
    \/ \E n \in Neighborhoods : OpenFails(n)
    \/ \E n \in Neighborhoods : OpenRaises(n)
    \/ \E n \in Neighborhoods : LoopExit(n)
    \/ \E n \in Neighborhoods : PageLoad(n)
    \/ \E n \in Neighborhoods : PageLoadFails(n)
    \/ \E n \in Neighborhoods : TableFound(n)
    \/ \E n \in Neighborhoods : TableAttemptFails(n)
    \/ \E n \in Neighborhoods : RowsRaise(n)
    \/ \E n \in Neighborhoods : TableLookupRaises(n)
    \/ \E n \in Neighborhoods : ProcessRow(n)
    \/ \E n \in Neighborhoods : RowsDone(n)
    \/ \E n \in Neighborhoods : Paginate(n)
    \/ \E n \in Neighborhoods : PaginateRaises(n)
    \/ \E n \in Neighborhoods : Final(n)
    \/ \E n \in Neighborhoods : FinalSaveRaises(n)
    \/ \E n \in Neighborhoods : Collect(n)
    \/ Exit
    \/ Rerun

Spec == Init /\ [][Next]_vars

(* SpecLong: the program run, and run again, on the long page, the browser
   and the files raising nothing *)

InitLong ==
    /\ IdleProbe
    /\ site \in [{NbA} -> { <<page>> : page \in SitePages }]
    /\ checkpoint_dir = EarlierDir
    /\ now = 0
    /\ local = [n \in {NbA} |-> IdleFrame]
    /\ results = <<>>
    /\ process = "running"
    /\ run = 1
    /\ faults = MaxFaults
    /\ last_save = [n \in {NbA} |-> NoSave]
    /\ previous = [n \in {NbA} |-> NoPrevious]
    /\ max_workers = MAX_WORKERS
    /\ checkpoint_lock = {}
    /\ logging_lock = {}

NextLong ==
    \/ \E n \in Neighborhoods : Start(n)
    \/ \E n \in Neighborhoods : Open(n)
    \/ \E n \in Neighborhoods : LoopExit(n)
    \/ \E n \in Neighborhoods : PageLoad(n)
    \/ \E n \in Neighborhoods : TableFound(n)
    \/ \E n \in Neighborhoods : ProcessRow(n)
    \/ \E n \in Neighborhoods : RowsDone(n)
    \/ \E n \in Neighborhoods : Paginate(n)
    \/ \E n \in Neighborhoods : Final(n)
    \/ \E n \in Neighborhoods : Collect(n)
    \/ Exit
    \/ Rerun

SpecLong == InitLong /\ [][NextLong]_vars

(* SpecCrash: the same, the process also dying inside save_checkpoint *)

NextCrash ==
    \/ Next
    \/ \E n \in Neighborhoods : KilledInPeriodicSave(n)
    \/ \E n \in Neighborhoods : KilledInFinalSave(n)

SpecCrash == Init /\ [][NextCrash]_vars

(* SpecInterrupt: the same as Spec, a KeyboardInterrupt also arriving *)

NextInterrupt ==
    \/ Next
    \/ Interrupt
    \/ ExitInterrupted

SpecInterrupt == Init /\ [][NextInterrupt]_vars

(* SpecResume: the program run, and run again, on one neighborhood whose
   directory holds an old-format snapshot, or that and a snapshot cut short *)

InitResume ==
    /\ IdleProbe
    /\ site \in [{NbA} -> PairSites]
    /\ checkpoint_dir \in {LegacyDir, CutDir}
    /\ now = 0
    /\ local = [n \in {NbA} |-> IdleFrame]
    /\ results = <<>>
    /\ process = "running"
    /\ run = 1
    /\ faults = 0
    /\ last_save = [n \in {NbA} |-> NoSave]
    /\ previous = [n \in {NbA} |-> NoPrevious]
    /\ max_workers = MAX_WORKERS
    /\ checkpoint_lock = {}
    /\ logging_lock = {}

SpecResume == InitResume /\ [][Next]_vars

(* SpecPair: one run over a worklist of two neighborhoods, on one worker or
   on one worker for each; the crawl of A meets no error, the crawl of B any *)

InitPair ==
    /\ IdleProbe
    /\ \E other \in {NbB, NbAB} :
          /\ site \in [{NbA, other} -> PairSites]
          /\ local = [n \in {NbA, other} |-> IdleFrame]
          /\ last_save = [n \in {NbA, other} |-> NoSave]
          /\ previous = [n \in {NbA, other} |-> NoPrevious]
    /\ checkpoint_dir = LegacyDir
    /\ now = 0
    /\ results = <<>>
    /\ process = "running"
    /\ run = 1
    /\ faults = 0
    /\ max_workers \in {MAX_WORKERS, Cardinality({NbA, NbB})}
    /\ checkpoint_lock = {}
    /\ logging_lock = {}

NextPair ==
    \/ \E n \in Neighborhoods : Start(n)
    \/ \E n \in Neighborhoods : Open(n)
    \/ \E n \in Neighborhoods : LoopExit(n)
    \/ \E n \in Neighborhoods : PageLoad(n)
    \/ \E n \in Neighborhoods : TableFound(n)
    \/ RowStep(NbA, "ok")
    \/ \E n \in Neighborhoods \ {NbA} : ProcessRow(n)
    \/ \E n \in Neighborhoods : RowsDone(n)
    \/ \E n \in Neighborhoods : Paginate(n)
    \/ \E n \in Neighborhoods : Final(n)
    \/ \E n \in Neighborhoods \ {NbA} : OpenFails(n)
    \/ \E n \in Neighborhoods \ {NbA} : OpenRaises(n)
    \/ \E n \in Neighborhoods \ {NbA} : PageLoadFails(n)
    \/ \E n \in Neighborhoods \ {NbA} : TableAttemptFails(n)
    \/ \E n \in Neighborhoods \ {NbA} : RowsRaise(n)
    \/ \E n \in Neighborhoods \ {NbA} : TableLookupRaises(n)
    \/ \E n \in Neighborhoods \ {NbA} : PaginateRaises(n)
    \/ \E n \in Neighborhoods \ {NbA} : FinalSaveRaises(n)
    \/ \E n \in Neighborhoods : Collect(n)
    \/ Exit

SpecPair == InitPair /\ [][NextPair]_vars

----------------------------------------------------------------------------
(* SpecLock: save_checkpoint and load_latest_checkpoint statement by
   statement, called by two worker threads; args[n] is the call of thread n *)

lockRest == <<ret, site, results, process, run, faults, last_save, previous,
              max_workers, logging_lock>>

NoCall == [fn |-> "none", at |-> "none", timestamp |-> 0, latest_checkpoint |-> EMPTY]

Call(fn) == [NoCall EXCEPT !.fn = fn, !.at = "with"]

\* The transactions the crawls of SpecLock meet.
LockRecords ==
    { [address |-> <<"b">>, transactionDate |-> <<"1">>, price |-> <<"2">>],
      LegacyData[2] }

\* A lock taken whether or not it is held.
acquire_unlocked(lock, thread) == TRUE

\* Lock.acquire(): the thread gets the lock when no thread holds it.
acquire(lock, thread) == lock = {}

\* Inside the with block of line 129 or of line 145.
InBody(n) == args[n].at \in {"body", "open", "dump"}

\* Line 227: process_neighborhood calls load_latest_checkpoint.
CallLoad(n) ==
    /\ local[n].pc = "idle"
    /\ Cardinality({ m \in Neighborhoods : Active(m) }) < max_workers
    /\ local' = [local EXCEPT ![n].pc = "loading"]
    /\ args' = [args EXCEPT ![n] = Call("load")]
    /\ UNCHANGED <<lockRest, checkpoint_dir, now, checkpoint_lock>>

\* Lines 129 and 145: with checkpoint_lock, the thread waiting until the lock
\* is free.
EnterWith(n) ==
    /\ args[n].at = "with"
    /\ acquire(checkpoint_lock, n)
    /\ checkpoint_lock' = checkpoint_lock \cup {n}
    /\ args' = [args EXCEPT ![n].at = "body"]
    /\ UNCHANGED <<lockRest, checkpoint_dir, now, local>>

\* The frame of process_neighborhood after load_latest_checkpoint returned
\* (lines 227-235).
AfterLoad(frame, loaded) ==
    IF loaded.raised
    THEN Raised([frame EXCEPT !.latest_checkpoint = loaded.latest_checkpoint])
    ELSE [frame EXCEPT !.pc = "crawling",
                       !.all_data = loaded.data,
                       !.seen_hashes = loaded.seen_hashes,
                       !.checkpoint_num = loaded.checkpoint_num,
                       !.latest_checkpoint = loaded.latest_checkpoint]

\* Lines 146-151: the listing and the choice of the latest file; with no file
\* the function returns, with a name that int() rejects it raises, and the
\* lock is released.
LoadList(n) ==
    /\ args[n].fn = "load"
    /\ args[n].at = "body"
    /\ LET files == checkpoint_files(checkpoint_dir, n)
       IN  IF /\ files # {}
              /\ \E latest_checkpoint \in {Max(files)} :
                    checkpoint_num_of(latest_checkpoint) # ValueError
           THEN /\ args' = [args EXCEPT ![n].at = "open",
                                        ![n].latest_checkpoint = Max(files)]
                /\ UNCHANGED <<local, checkpoint_lock>>
           ELSE /\ args' = [args EXCEPT ![n] = NoCall]
                /\ local' = [local EXCEPT ![n] =
                      AfterLoad(@, load_latest_checkpoint(checkpoint_dir, n))]
                /\ checkpoint_lock' = checkpoint_lock \ {n}
    /\ UNCHANGED <<lockRest, checkpoint_dir, now>>

\* Lines 153-172: the file is opened and read, the function returns and the
\* lock is released.
LoadRead(n) ==
    /\ args[n].fn = "load"
    /\ args[n].at = "open"
    /\ args' = [args EXCEPT ![n] = NoCall]
    /\ local' = [local EXCEPT ![n] =
          AfterLoad(@, read_checkpoint(checkpoint_dir, args[n].latest_checkpoint))]
    /\ checkpoint_lock' = checkpoint_lock \ {n}
    /\ UNCHANGED <<lockRest, checkpoint_dir, now>>

\* Lines 347-359: the crawl meets a transaction.
Meet(n) ==
    /\ local[n].pc = "crawling"
    /\ \E transaction \in LockRecords :
          /\ local[n].duplicates_found = 0
          /\ local' = [local EXCEPT ![n] = dedup_step(@, transaction)]
    /\ UNCHANGED <<lockRest, args, checkpoint_dir, now, checkpoint_lock>>

\* Lines 363-364 and 398-399: the sequence number is incremented and
\* save_checkpoint is called for the unsaved records.
CallSave(n) ==
    /\ local[n].pc = "crawling"
    /\ local[n].records_since_last_checkpoint > 0
    /\ local' = [local EXCEPT ![n].pc = "saving", ![n].checkpoint_num = @ + 1]
    /\ args' = [args EXCEPT ![n] = Call("save")]
    /\ UNCHANGED <<lockRest, checkpoint_dir, now, checkpoint_lock>>

\* Lines 130-138: the clock is read, the name is built and open(..., 'w')
\* creates the file, empty.
SaveOpen(n) ==
    /\ args[n].fn = "save"
    /\ args[n].at = "body"
    /\ \E clock \in ClockReadings(now) :
          /\ now' = clock
          /\ args' = [args EXCEPT ![n].at = "dump", ![n].timestamp = clock]
          /\ checkpoint_dir' =
                save_checkpoint_killed(checkpoint_dir, local[n].checkpoint_num, n, clock)
    /\ UNCHANGED <<lockRest, local, checkpoint_lock>>

\* Lines 139-140: json.dump writes the snapshot, the file is closed, the
\* function returns and the lock is released; line 365 resets the counter.
SaveDump(n) ==
    /\ args[n].fn = "save"
    /\ args[n].at = "dump"
    /\ checkpoint_dir' =
          save_checkpoint(checkpoint_dir, local[n].all_data, local[n].seen_hashes,
                          local[n].checkpoint_num, n, args[n].timestamp)
    /\ args' = [args EXCEPT ![n] = NoCall]
    /\ local' = [local EXCEPT ![n].pc = "crawling",
                              ![n].records_since_last_checkpoint = 0]
    /\ checkpoint_lock' = checkpoint_lock \ {n}
    /\ UNCHANGED <<lockRest, now>>

\* Lines 402-421: the crawl returns, nothing left to save.
Return(n) ==
    /\ local[n].pc = "crawling"
    /\ local[n].records_since_last_checkpoint = 0
    /\ local' = [local EXCEPT ![n] =
          Returned(@, IF @.all_data # <<>> THEN unique_count(@.all_data) ELSE 0)]
    /\ UNCHANGED <<lockRest, args, checkpoint_dir, now, checkpoint_lock>>

InitLock ==
    /\ args = [n \in {NbA, NbAB} |-> NoCall]
    /\ ret = <<>>
    /\ site = <<>>
    /\ checkpoint_dir = LegacyDir
    /\ now = 0
    /\ local = [n \in {NbA, NbAB} |-> IdleFrame]
    /\ results = <<>>
    /\ process = "running"
    /\ run = 1
    /\ faults = 0
    /\ last_save = [n \in {NbA, NbAB} |-> NoSave]
    /\ previous = [n \in {NbA, NbAB} |-> NoPrevious]
    /\ max_workers = Cardinality({NbA, NbAB})
    /\ checkpoint_lock = {}
    /\ logging_lock = {}

NextLock ==
    \/ \E n \in Neighborhoods : CallLoad(n)
    \/ \E n \in Neighborhoods : EnterWith(n)
    \/ \E n \in Neighborhoods : LoadList(n)
    \/ \E n \in Neighborhoods : LoadRead(n)
    \/ \E n \in Neighborhoods : Meet(n)
    \/ \E n \in Neighborhoods : CallSave(n)
    \/ \E n \in Neighborhoods : SaveOpen(n)
    \/ \E n \in Neighborhoods : SaveDump(n)
    \/ \E n \in Neighborhoods : Return(n)

SpecLock == InitLock /\ [][NextLock]_vars

----------------------------------------------------------------------------
(* SpecLog: the calls of SpecLock with their thread_safe_log calls, statement
   by statement, and the report of a finished crawl; the threads are
   scheduled fairly *)

logRest == <<ret, site, results, process, run, faults, last_save, previous,
             max_workers>>

\* thread_safe_log guarded by the lock of the checkpoint functions.
thread_safe_log_lock_checkpoint == "checkpoint_lock"

\* Line 53: the lock that thread_safe_log takes.
thread_safe_log_lock == "logging_lock"

\* Lines 47-48: the threads inside a with block of the named lock.
Holders(lock) == IF lock = "checkpoint_lock" THEN checkpoint_lock ELSE logging_lock

\* Lines 153-171: the file is opened and read, and thread_safe_log is called
\* with the outcome, at line 167 or at line 171, inside the with block.
LoadParse(n) ==
    /\ args[n].fn = "load"
    /\ args[n].at = "open"
    /\ args' = [args EXCEPT ![n].at = "log_with"]
    /\ UNCHANGED <<lockRest, checkpoint_dir, now, local, checkpoint_lock>>

\* Lines 139-140: json.dump writes the snapshot, the file is closed and
\* thread_safe_log is called inside the with block.
SaveWrite(n) ==
    /\ args[n].fn = "save"
    /\ args[n].at = "dump"
    /\ checkpoint_dir' =
          save_checkpoint(checkpoint_dir, local[n].all_data, local[n].seen_hashes,
                          local[n].checkpoint_num, n, args[n].timestamp)
    /\ args' = [args EXCEPT ![n].at = "log_with"]
    /\ UNCHANGED <<lockRest, now, local, checkpoint_lock>>

\* Lines 402-420: the crawl is over, nothing left to save, and
\* process_neighborhood calls thread_safe_log for its report, holding no lock.
LogCompleted(n) ==
    /\ local[n].pc = "crawling"
    /\ local[n].records_since_last_checkpoint = 0
    /\ local' = [local EXCEPT ![n].pc = "reporting"]
    /\ args' = [args EXCEPT ![n] = [Call("log") EXCEPT !.at = "log_with"]]
    /\ UNCHANGED <<lockRest, checkpoint_dir, now, checkpoint_lock>>

\* Line 53: with logging_lock, the thread waiting until the lock is free.
LogEnter(n) ==
    /\ args[n].at = "log_with"
    /\ acquire(Holders(thread_safe_log_lock), n)
    /\ IF thread_safe_log_lock = "checkpoint_lock"
       THEN checkpoint_lock' = checkpoint_lock \cup {n} /\ UNCHANGED logging_lock
       ELSE logging_lock' = logging_lock \cup {n} /\ UNCHANGED checkpoint_lock
    /\ args' = [args EXCEPT ![n].at = "log_body"]
    /\ UNCHANGED <<logRest, checkpoint_dir, now, local>>

\* Lines 54-59: the message is logged and the lock of line 53 is released.
LogExit(n) ==
    /\ args[n].at = "log_body"
    /\ IF thread_safe_log_lock = "checkpoint_lock"
       THEN checkpoint_lock' = checkpoint_lock \ {n} /\ UNCHANGED logging_lock
       ELSE logging_lock' = logging_lock \ {n} /\ UNCHANGED checkpoint_lock
    /\ args' = [args EXCEPT ![n].at = "logged"]
    /\ UNCHANGED <<logRest, checkpoint_dir, now, local>>

\* Lines 168 and 172: load_latest_checkpoint returns what it read and the
\* lock of line 145 is released.
LoadReturn(n) ==
    /\ args[n].fn = "load"
    /\ args[n].at = "logged"
    /\ args' = [args EXCEPT ![n] = NoCall]
    /\ \E loaded \in {read_checkpoint(checkpoint_dir, args[n].latest_checkpoint)} :
          local' = [local EXCEPT ![n] = AfterLoad(@, loaded)]
    /\ checkpoint_lock' = checkpoint_lock \ {n}
    /\ UNCHANGED <<lockRest, checkpoint_dir, now>>

\* Line 140: save_checkpoint returns and the lock of line 129 is released;
\* line 365 resets the counter.
SaveReturn(n) ==
    /\ args[n].fn = "save"
    /\ args[n].at = "logged"
    /\ args' = [args EXCEPT ![n] = NoCall]
    /\ local' = [local EXCEPT ![n].pc = "crawling",
                              ![n].records_since_last_checkpoint = 0]
    /\ checkpoint_lock' = checkpoint_lock \ {n}
    /\ UNCHANGED <<lockRest, checkpoint_dir, now>>

\* Lines 417 and 421: the report is logged and the crawl returns.
ReturnReported(n) ==
    /\ args[n].fn = "log"
    /\ args[n].at = "logged"
    /\ args' = [args EXCEPT ![n] = NoCall]
    /\ local' = [local EXCEPT ![n] =
          Returned(@, IF @.all_data # <<>> THEN unique_count(@.all_data) ELSE 0)]
    /\ UNCHANGED <<lockRest, checkpoint_dir, now, checkpoint_lock>>

\* The worker threads of SpecLog.
LogThreads == {NbA, NbAB}

InitLog ==
    /\ args = [n \in LogThreads |-> NoCall]
    /\ ret = <<>>
    /\ site = <<>>
    /\ checkpoint_dir = LegacyDir
    /\ now = 0
    /\ local = [n \in LogThreads |-> IdleFrame]
    /\ results = <<>>
    /\ process = "running"
    /\ run = 1
    /\ faults = 0
    /\ last_save = [n \in LogThreads |-> NoSave]
    /\ previous = [n \in LogThreads |-> NoPrevious]
    /\ max_workers = Cardinality(LogThreads)
    /\ checkpoint_lock = {}
    /\ logging_lock = {}

\* The steps of the worker thread of neighborhood n.
Thread(n) ==
    \/ CallLoad(n)
    \/ EnterWith(n)
    \/ LoadList(n)
    \/ LoadParse(n)
    \/ LogEnter(n)
    \/ LogExit(n)
    \/ LoadReturn(n)
    \/ Meet(n)
    \/ CallSave(n)
    \/ SaveOpen(n)
    \/ SaveWrite(n)
    \/ SaveReturn(n)
    \/ LogCompleted(n)
    \/ ReturnReported(n)

NextLog ==
    \/ \E n \in Neighborhoods : CallLoad(n)
    \/ \E n \in Neighborhoods : EnterWith(n)
    \/ \E n \in Neighborhoods : LoadList(n)
    \/ \E n \in Neighborhoods : LoadParse(n)
    \/ \E n \in Neighborhoods : LogEnter(n)
    \/ \E n \in Neighborhoods : LogExit(n)
    \/ \E n \in Neighborhoods : LoadReturn(n)
    \/ \E n \in Neighborhoods : Meet(n)
    \/ \E n \in Neighborhoods : CallSave(n)
    \/ \E n \in Neighborhoods : SaveOpen(n)
    \/ \E n \in Neighborhoods : SaveWrite(n)
    \/ \E n \in Neighborhoods : SaveReturn(n)
    \/ \E n \in Neighborhoods : LogCompleted(n)
    \/ \E n \in Neighborhoods : ReturnReported(n)

\* Every thread that can take a step is given the processor in the end.
SpecLog == InitLog /\ [][NextLog]_vars /\ \A n \in LogThreads : WF_vars(Thread(n))

----------------------------------------------------------------------------
(* SpecHash: create_record_hash on every pair of records *)

InitHash ==
    /\ args \in [r1 : HashRecords, r2 : HashRecords]
    /\ ret = <<>>
    /\ IdleCrawl

HashBoth ==
    /\ ret = <<>>
    /\ ret' = << <<create_record_hash(args.r1), create_record_hash(args.r2)>> >>
    /\ UNCHANGED <<args, crawlVars>>

NextHash == HashBoth

SpecHash == InitHash /\ [][NextHash]_vars

(* SpecExtract: extract_multiple_transactions on every detail-cell list *)

InitExtract ==
    /\ args \in [features : FeatureLists, base_row_data : BaseRows]
    /\ ret = <<>>
    /\ IdleCrawl

Extract ==
    /\ ret = <<>>
    /\ ret' = <<extract_multiple_transactions(args.features, args.base_row_data)>>
    /\ UNCHANGED <<args, crawlVars>>

NextExtract == Extract

SpecExtract == InitExtract /\ [][NextExtract]_vars

(* SpecTerminate: the program run, and run again, on sites of several pages,
   one of them with a page after page MAX_PAGES, and
   extract_multiple_transactions called on every detail-cell list; every
   call of the browser returns and the threads are scheduled fairly *)

\* The sites of more than one page; the longest has MAX_PAGES + 1 pages, so
\* that the crawl finds an enabled next button on every page it reaches.
PagedSites == { s \in Sites : Len(s) > 1 }

InitPages ==
    /\ IdleProbe
    /\ site \in [{NbA} -> PagedSites]
    /\ checkpoint_dir = <<>>
    /\ now = 0
    /\ local = [n \in {NbA} |-> IdleFrame]
    /\ results = <<>>
    /\ process = "running"
    /\ run = 1
    /\ faults = 0
    /\ last_save = [n \in {NbA} |-> NoSave]
    /\ previous = [n \in {NbA} |-> NoPrevious]
    /\ max_workers = MAX_WORKERS
    /\ checkpoint_lock = {}
    /\ logging_lock = {}

InitTerminate == InitPages \/ InitExtract

\* The call of extract_multiple_transactions, where no crawl is modelled.
ExtractAlone == local = <<>> /\ Extract

\* The steps of process_neighborhood(n), whatever the browser answers.
Worker(n) ==
    \/ Start(n)
    \/ Open(n)
    \/ OpenFails(n)
    \/ OpenRaises(n)
    \/ LoopExit(n)
    \/ PageLoad(n)
    \/ PageLoadFails(n)
    \/ TableFound(n)
    \/ TableAttemptFails(n)
    \/ RowsRaise(n)
    \/ TableLookupRaises(n)
    \/ ProcessRow(n)
    \/ RowsDone(n)
    \/ Paginate(n)
    \/ PaginateRaises(n)
    \/ Final(n)
    \/ FinalSaveRaises(n)

NextTerminate == Next \/ ExtractAlone

\* A worker has a step to take: the pool runs and its call has not returned.
\* This is the enabling condition of Worker written out, every position of
\* process_neighborhood having a step that raises nothing.
WorkerEnabled ==
    \E n \in Neighborhoods :
        /\ WorkersRun
        /\ local[n].pc \notin {"returned", "done"}
        /\ local[n].pc = "idle" =>
              Cardinality({ m \in Neighborhoods : Active(m) }) < max_workers

\* A call that can take a step takes one in the end: weak fairness of Worker
\* and of ExtractAlone.
SpecTerminate ==
    /\ InitTerminate
    /\ [][NextTerminate]_vars
    /\ []<>(~WorkerEnabled) \/ []<><<\E n \in Neighborhoods : Worker(n)>>_vars
    /\ WF_vars(ExtractAlone)

----------------------------------------------------------------------------
(* Claims about the checkpoint files and the resumed crawl *)

Finished(n) == local[n].pc \in {"returned", "done"}

JustLoaded(n) == local[n].pc = "opening"

HashesOf(data) == { create_record_hash(data[k]) : k \in 1..Len(data) }

\* The largest sequence number among the given file names.
HighestSequenceNumber(files) ==
    CHOOSE c \in { checkpoint_num_of(f) : f \in files } :
        \A f \in files : checkpoint_num_of(f) <= c

\* C1: a crawl that starts from the checkpoint saved by a completed crawl of
\* the same pages appends no record and counts every transaction it extracts
\* as a duplicate.
C1_IdempotentResume ==
    \A n \in Neighborhoods :
        (run = 2 /\ previous[n].ran /\ last_save[n].saved /\ Finished(n)) =>
            /\ local[n].new_records_this_session = 0
            /\ local[n].duplicates_found =
                  previous[n].new_records_this_session + previous[n].duplicates_found

\* C2: a load after the most recent save(R, H) returns the records R and a
\* hash set holding the hash of every record of R.
C2_CheckpointRoundTrip ==
    \A n \in Neighborhoods :
        (JustLoaded(n) /\ last_save[n].saved) =>
            /\ local[n].all_data = last_save[n].data
            /\ HashesOf(last_save[n].data) \subseteq local[n].seen_hashes

\* C3: the load selects, among the snapshots stored for the neighborhood, the
\* one with the highest sequence number and returns that number; with no
\* snapshot the crawl starts from no records, no hashes and sequence 0.
C3_LoadSelectsHighestSequence ==
    \A n \in Neighborhoods :
        JustLoaded(n) =>
            LET files == checkpoint_files(checkpoint_dir, n)
            IN  IF files = {}
                THEN /\ local[n].all_data = <<>>
                     /\ local[n].seen_hashes = {}
                     /\ local[n].checkpoint_num = 0
                ELSE /\ local[n].checkpoint_num = HighestSequenceNumber(files)
                     /\ checkpoint_num_of(local[n].latest_checkpoint)
                           = HighestSequenceNumber(files)

\* A save was cut off by the death of the process.
SaveWasCutOff ==
    \E f \in DOMAIN checkpoint_dir : checkpoint_dir[f].json = "invalid"

\* C4: after the process died inside save_checkpoint, a load still returns the
\* last snapshot that had been saved completely.
C4_AtomicSave ==
    \A n \in Neighborhoods :
        (JustLoaded(n) /\ SaveWasCutOff /\ last_save[n].saved) =>
            /\ local[n].all_data = last_save[n].data
            /\ local[n].checkpoint_num = last_save[n].checkpoint_num

\* C5: every snapshot written by save_checkpoint holds the hash of each of its
\* records in seen_hashes, and its record_count is the length of data.
C5_SnapshotInvariant ==
    \A f \in DOMAIN checkpoint_dir :
        checkpoint_dir[f].json = "dict" =>
            LET snapshot == checkpoint_dir[f].value
            IN  /\ HashesOf(snapshot.data) \subseteq Range(snapshot.seen_hashes)
                /\ snapshot.record_count = Len(snapshot.data)

\* C5 happens: a crawl resumed from a checkpoint has appended records and
\* saved a snapshot that holds them after the loaded ones.
C5_Witness ==
    \E n \in Neighborhoods :
        /\ Finished(n)
        /\ local[n].latest_checkpoint # EMPTY
        /\ local[n].new_records_this_session > 0
        /\ last_save[n].saved
        /\ \E f \in DOMAIN checkpoint_dir :
              /\ checkpoint_dir[f].json = "dict"
              /\ checkpoint_dir[f].value.data = local[n].all_data
              /\ Len(local[n].all_data) > local[n].new_records_this_session

\* C6: when the latest snapshot is a bare list of records, the load returns
\* that list and exactly the hashes of its records.
C6_LegacyCompatibility ==
    \A n \in Neighborhoods :
        (/\ JustLoaded(n)
         /\ local[n].latest_checkpoint # EMPTY
         /\ checkpoint_dir[local[n].latest_checkpoint].json = "list") =>
            LET data == checkpoint_dir[local[n].latest_checkpoint].value[1]
            IN  /\ local[n].all_data = data
                /\ local[n].seen_hashes = { create_record_hash(r) : r \in Range(data) }
                /\ local[n].checkpoint_num
                      = checkpoint_num_of(local[n].latest_checkpoint)

\* C6 happens: a bare list of two records was loaded.
C6_Witness ==
    \E n \in Neighborhoods :
        /\ JustLoaded(n)
        /\ local[n].latest_checkpoint # EMPTY
        /\ checkpoint_dir[local[n].latest_checkpoint].json = "list"
        /\ Len(local[n].all_data) = 2
        /\ Cardinality(local[n].seen_hashes) = 2

\* The number of records of the checkpoint the crawl of n started from.
LoadedCount(n) ==
    IF local[n].latest_checkpoint = EMPTY
       \/ local[n].latest_checkpoint \notin DOMAIN checkpoint_dir
    THEN 0
    ELSE Len(read_checkpoint(checkpoint_dir, local[n].latest_checkpoint).data)

\* The outcome the claim gives for one transaction met in frame f.
DedupOutcome(f, transaction) ==
    LET after == dedup_step(f, transaction)
    IN  IF create_record_hash(transaction) \in f.seen_hashes
        THEN /\ after.duplicates_found = f.duplicates_found + 1
             /\ after.all_data = f.all_data
             /\ after.seen_hashes = f.seen_hashes
             /\ after.records_since_last_checkpoint = f.records_since_last_checkpoint
             /\ after.new_records_this_session = f.new_records_this_session
        ELSE /\ after.duplicates_found = f.duplicates_found
             /\ after.all_data = Append(f.all_data, transaction)
             /\ after.seen_hashes = f.seen_hashes \cup {create_record_hash(transaction)}
             /\ after.records_since_last_checkpoint = f.records_since_last_checkpoint + 1
             /\ after.new_records_this_session = f.new_records_this_session + 1

\* C17: at most one thread at a time is inside the with checkpoint_lock block
\* of save_checkpoint or of load_latest_checkpoint, and while a thread is
\* inside the block of load_latest_checkpoint the directory holds no file that
\* a save has opened and not yet written.
C17_SerializedCheckpointAccess ==
    /\ Cardinality({ n \in Neighborhoods : InBody(n) }) <= 1
    /\ \A n \in Neighborhoods :
          (args[n].fn = "load" /\ InBody(n)) =>
              \A f \in DOMAIN checkpoint_dir : checkpoint_dir[f] # Truncated

\* C17 happens: a thread is inside save_checkpoint, the file opened and not
\* yet written, a file that the listing of the other thread would take for
\* its own, while the other thread waits at the with of load_latest_checkpoint.
C17_Witness ==
    \E n \in Neighborhoods, m \in Neighborhoods :
        /\ n # m
        /\ args[n].fn = "save" /\ args[n].at = "dump"
        /\ args[m].fn = "load" /\ args[m].at = "with"
        /\ checkpoint_lock = {n}
        /\ \E f \in checkpoint_files(checkpoint_dir, m) : checkpoint_dir[f] = Truncated

\* C18: a transaction whose hash is in seen_hashes is counted as a duplicate
\* and discarded, any other is appended with its hash added and both counters
\* incremented; so the accumulator never holds two records with the same
\* hash, and it holds the loaded records followed by the session's new ones.
C18_DedupStep ==
    \A n \in Neighborhoods :
        LET f == local[n]
        IN  /\ \A j, k \in 1..Len(f.all_data) :
                  j # k => create_record_hash(f.all_data[j]) # create_record_hash(f.all_data[k])
            /\ HashesOf(f.all_data) \subseteq f.seen_hashes
            /\ Len(f.all_data) = LoadedCount(n) + f.new_records_this_session
            /\ f.records_since_last_checkpoint <= f.new_records_this_session
            /\ (f.pc = "rows" /\ f.i <= Len(CurrentPage(n))) =>
                  DedupOutcome(f, base_row_data_of(CurrentPage(n)[f.i].cells))

\* C18 happens: a crawl resumed from a checkpoint has met a transaction it had
\* seen and one it had not.
C18_Witness ==
    \E n \in Neighborhoods :
        /\ local[n].pc = "rows"
        /\ LoadedCount(n) > 0
        /\ local[n].duplicates_found > 0
        /\ local[n].new_records_this_session > 0
        /\ Len(local[n].all_data) > LoadedCount(n)

\* The records of a stored snapshot, in either format; none for a file cut
\* short.
SnapshotData(content) ==
    IF content.json = "dict" THEN content.value.data
    ELSE IF content.json = "list" THEN content.value[1]
    ELSE <<>>

\* The records of the snapshots stored for n.
PersistedRecords(n) ==
    UNION { Range(SnapshotData(checkpoint_dir[f])) : f \in checkpoint_files(checkpoint_dir, n) }

\* The number of records of the largest snapshot stored for n.
PersistedCount(n) ==
    LET sizes == { Len(SnapshotData(checkpoint_dir[f])) :
                     f \in checkpoint_files(checkpoint_dir, n) } \cup {0}
    IN  CHOOSE c \in sizes : \A d \in sizes : d <= c

\* C19: the records appended and not yet saved never number more than
\* CHECKPOINT_INTERVAL: at every step the accumulator is at most that much
\* longer than the largest snapshot stored before the step, and between steps
\* the counter stays below the threshold at which the save is made.
C19_PeriodicCheckpoint ==
    [][\A n \in Neighborhoods :
          /\ Len(local'[n].all_data) - PersistedCount(n) <= CHECKPOINT_INTERVAL
          /\ local'[n].records_since_last_checkpoint < CHECKPOINT_INTERVAL]_vars

\* Every save_checkpoint call n's crawl has made wrote its file: the snapshot
\* with the crawl's current sequence number is stored, or no save was made.
SavesCompleted(n) ==
    \/ local[n].checkpoint_num = 0
    \/ \E f \in checkpoint_files(checkpoint_dir, n) :
          /\ checkpoint_num_of(f) = local[n].checkpoint_num
          /\ checkpoint_dir[f].json # "invalid"

\* C13: when process_neighborhood has ended, by whatever path, every record
\* of its accumulator is in a snapshot stored for the neighborhood.
C13_FinalCheckpointOnEveryEnd ==
    \A n \in Neighborhoods :
        (Finished(n) /\ SavesCompleted(n)) =>
            Range(local[n].all_data) \subseteq PersistedRecords(n)

\* C14: a crawl that ends in failure returns the number of records persisted
\* for the neighborhood: those of the largest snapshot stored for it.
C14_FailedCrawlReturnsPersistedCount ==
    [][\A n \in Neighborhoods :
          (/\ local[n].pc \notin {"returned", "done"}
           /\ local'[n].pc = "returned"
           /\ faults' = faults + 1
           /\ checkpoint_dir' = checkpoint_dir) =>
              local'[n].result = PersistedCount(n)]_vars

\* C15: after a KeyboardInterrupt that arrived with a crawl in flight, no step
\* removes or changes a checkpoint file, and when the program ends every
\* record the crawl holds is in a snapshot stored for its neighborhood.
C15_Cancellation ==
    [][process = "interrupted" =>
          /\ \A f \in DOMAIN checkpoint_dir :
                f \in DOMAIN checkpoint_dir' /\ checkpoint_dir'[f] = checkpoint_dir[f]
          /\ process' = "stopped" =>
                \A n \in Neighborhoods :
                    SavesCompleted(n) =>
                        Range(local[n].all_data) \subseteq PersistedRecords(n)]_vars

UnreadableLatest(n) ==
    /\ local[n].latest_checkpoint \in DOMAIN checkpoint_dir
    /\ checkpoint_dir[local[n].latest_checkpoint].json = "invalid"

\* C29: when json.load rejects the file selected as latest, the crawl starts
\* with no records, no hashes and sequence number 0, whatever older snapshots
\* the directory holds, and it returns no error that a browser fault did not
\* raise.
C29_UnreadableLatest ==
    \A n \in Neighborhoods :
        UnreadableLatest(n) =>
            /\ JustLoaded(n) =>
                  /\ local[n].all_data = <<>>
                  /\ local[n].seen_hashes = {}
                  /\ local[n].checkpoint_num = 0
                  /\ local[n].latest_checkpoint = Max(checkpoint_files(checkpoint_dir, n))
            /\ local[n].error => faults > 0

\* C29 happens: the crawl has loaded nothing, the latest file being cut
\* short, while the directory holds an older snapshot that can be read.
C29_Witness ==
    \E n \in Neighborhoods :
        /\ JustLoaded(n)
        /\ UnreadableLatest(n)
        /\ local[n].all_data = <<>>
        /\ \E f \in checkpoint_files(checkpoint_dir, n) :
              /\ checkpoint_dir[f].json # "invalid"
              /\ SnapshotData(checkpoint_dir[f]) # <<>>

\* The snapshots of n that can be read and carry the highest sequence number
\* among those.
LatestReadable(dir, n) ==
    LET readable == { f \in checkpoint_files(dir, n) : dir[f].json # "invalid" }
    IN  { f \in readable :
            \A g \in readable : checkpoint_num_of(g) <= checkpoint_num_of(f) }

IsPrefix(s, t) == Len(s) <= Len(t) /\ SubSeq(t, 1, Len(s)) = s

\* C30: a save stores a record list that begins with the record list of the
\* latest snapshot stored before it, under the sequence number of that
\* snapshot plus one.
C30_SnapshotsGrow ==
    [][\A n \in Neighborhoods :
          (checkpoint_dir' # checkpoint_dir /\ last_save'[n] # last_save[n]) =>
              \A f \in LatestReadable(checkpoint_dir, n) :
                  /\ IsPrefix(SnapshotData(checkpoint_dir[f]), last_save'[n].data)
                  /\ last_save'[n].checkpoint_num = checkpoint_num_of(f) + 1]_vars

----------------------------------------------------------------------------
(* Claims about the rows and the pages of a crawl *)

\* The crawl of n is at a row of the page.
AtRow(n) == local[n].pc = "rows" /\ local[n].i <= Len(CurrentPage(n))

\* C22: a row without a collapseArrow, or whose expansion shows no
\* innerTablesContainer, processed with no error raised, gives the dedup step
\* its base record and nothing else.
C22_DetailFallback ==
    [][\A n \in Neighborhoods :
          (/\ AtRow(n)
           /\ LET row == CurrentPage(n)[local[n].i]
              IN  ~row.arrow \/ ~row.container
           /\ local'[n].pc = "rows"
           /\ local'[n].i = local[n].i + 1
           /\ faults' = faults) =>
              LET base_row_data == base_row_data_of(CurrentPage(n)[local[n].i].cells)
                  after == dedup_step(local[n], base_row_data)
              IN  /\ local'[n].all_data = after.all_data
                  /\ local'[n].seen_hashes = after.seen_hashes]_vars

\* C25: when the first page does not load or the search fails, the crawl
\* returns the number of records it loaded from the checkpoint, 0 when it
\* loaded none, having extracted no page and written no file.
C25_SearchFailure ==
    [][\A n \in Neighborhoods :
          (/\ local[n].pc = "opening"
           /\ local'[n].pc = "returned"
           /\ ~local'[n].error) =>
              /\ local'[n].result = LoadedCount(n)
              /\ local'[n].all_data = local[n].all_data
              /\ local'[n].seen_hashes = local[n].seen_hashes
              /\ local'[n].checkpoint_num = local[n].checkpoint_num
              /\ checkpoint_dir' = checkpoint_dir]_vars

\* C25 happens: a crawl that loaded two records has returned 2 from the
\* failed search, the directory as it was at the start.
C25_Witness ==
    \E n \in Neighborhoods :
        /\ local[n].pc = "returned"
        /\ ~local[n].error
        /\ faults > 0
        /\ run = 1
        /\ local[n].latest_checkpoint # EMPTY
        /\ local[n].result = 2
        /\ local[n].new_records_this_session = 0
        /\ local[n].duplicates_found = 0
        /\ checkpoint_dir = LegacyDir

\* C24: after the rows of a page, with no error raised, the next button is
\* clicked only when the page has one that is enabled and fewer than MAX_PAGES
\* pages have been extracted, and then the following page is extracted;
\* otherwise the loop ends with no click.  No page after page MAX_PAGES is
\* extracted.
C24_PaginationAndPageLimit ==
    [][\A n \in Neighborhoods :
          /\ (local[n].pc = "paginate" /\ local'[n] # local[n] /\ faults' = faults) =>
                IF local[n].page_num < Len(site[n]) /\ local[n].page_num < MAX_PAGES
                THEN /\ local'[n].page_num = local[n].page_num + 1
                     /\ local'[n].has_next
                ELSE /\ local'[n].page_num = local[n].page_num
                     /\ ~local'[n].has_next
          /\ local'[n].pc \in {"find_table", "rows"} =>
                local'[n].page_num <= MAX_PAGES]_vars

\* C23: whatever a row raises, the step that processes it leaves the crawl
\* at the next row of the same page with no error to return, and the rows of
\* a page are left only after the last one: every later row is processed.
C23_RowLevelIsolation ==
    [][\A n \in Neighborhoods :
          /\ (AtRow(n) /\ local'[n] # local[n]) =>
                /\ local'[n].pc = "rows"
                /\ local'[n].i = local[n].i + 1
                /\ local'[n].page_num = local[n].page_num
                /\ local'[n].has_next = local[n].has_next
                /\ ~local'[n].error
          /\ (local[n].pc = "rows" /\ local'[n].pc # "rows") =>
                /\ local[n].i > Len(CurrentPage(n))
                /\ local'[n].pc = "paginate"]_vars

\* C23 happens: the first row of a page raised and left no record, and the
\* second row of the page has been processed and has left its record.
C23_Witness ==
    \E n \in Neighborhoods :
        /\ local[n].pc = "rows"
        /\ CurrentPage(n) = <<RowPair, RowPlain>>
        /\ local[n].i = 3
        /\ faults > 0
        /\ local[n].latest_checkpoint = EMPTY
        /\ Len(local[n].all_data) = 1
        /\ local[n].all_data[1].address = <<"a">>

----------------------------------------------------------------------------
(* Claims about a worklist of two neighborhoods *)

\* What a save stores, without the time of the save.
Stored(checkpoint_num, data, seen_hashes) ==
    [checkpoint_num |-> checkpoint_num, data |-> data, seen_hashes |-> seen_hashes]

\* The crawl of one neighborhood alone, meeting no error: its frame and the
\* snapshots it has saved, after one row, after the rows of a page from row
\* k on, after the pages from page p on, and at its end.
AloneRow(st, row) ==
    LET effect == row_effect(st.frame, row, "ok")
    IN  [frame |-> effect.frame,
         saved |-> IF effect.reaches_save
                   THEN st.saved \cup {Stored(effect.frame.checkpoint_num,
                                              effect.frame.all_data,
                                              effect.frame.seen_hashes)}
                   ELSE st.saved]

RECURSIVE AloneRows(_, _, _)
AloneRows(st, page, k) ==
    IF k > Len(page) THEN st ELSE AloneRows(AloneRow(st, page[k]), page, k + 1)

RECURSIVE AlonePages(_, _, _)
AlonePages(st, pages, p) ==
    IF p > Len(pages) \/ p > MAX_PAGES THEN st
    ELSE AlonePages(AloneRows(st, pages[p], 1), pages, p + 1)

AloneCrawlFrom(loaded, pages) ==
    LET start == [frame |-> [IdleFrame EXCEPT !.all_data = loaded.data,
                                              !.seen_hashes = loaded.seen_hashes,
                                              !.checkpoint_num = loaded.checkpoint_num],
                  saved |-> {}]
        end == AlonePages(start, pages, 1)
    IN  [result |-> IF end.frame.all_data = <<>> THEN 0
                    ELSE unique_count(end.frame.all_data),
         saved |-> IF end.frame.records_since_last_checkpoint > 0
                   THEN end.saved \cup {Stored(end.frame.checkpoint_num + 1,
                                              end.frame.all_data,
                                              end.frame.seen_hashes)}
                   ELSE end.saved]

AloneCrawl(dir, n, pages) == AloneCrawlFrom(load_latest_checkpoint(dir, n), pages)

\* What the crawl of n loaded when it started.
LoadedBy(n) ==
    IF local[n].latest_checkpoint = EMPTY THEN NothingLoaded(EMPTY)
    ELSE read_checkpoint(checkpoint_dir, local[n].latest_checkpoint)

\* The snapshots stored for n since the start of the run.
StoredSince(dir, n) ==
    { Stored(checkpoint_num_of(f), SnapshotData(checkpoint_dir[f]),
             Range(checkpoint_dir[f].value.seen_hashes)) :
        f \in checkpoint_files(checkpoint_dir, n) \ DOMAIN dir }

\* C11: when main() has finished, results has an entry for every
\* neighborhood of the worklist, the count its crawl returned, which is 0 for
\* a crawl that ended in an error; the errors of the other crawl neither end
\* the crawl of A nor change its count, which is the count of a crawl that
\* meets no error from the checkpoint that A loaded.
C11_SchedulerCompleteness ==
    process = "exited" =>
        /\ DOMAIN results = Neighborhoods
        /\ \A n \in Neighborhoods :
              /\ results[n] = local[n].result
              /\ local[n].error => results[n] = 0
        /\ ~local[NbA].error
        /\ results[NbA] = AloneCrawlFrom(LoadedBy(NbA), site[NbA]).result

\* C11 happens: main() has finished after the crawl of the other
\* neighborhood ended in an error and the crawl of A collected records.
C11_Witness ==
    /\ process = "exited"
    /\ \E n \in Neighborhoods \ {NbA} : local[n].error /\ results[n] = 0
    /\ results[NbA] > 0
    /\ local[NbA].new_records_this_session > 0

\* C12: when the pool runs the crawls of A and of another neighborhood side by
\* side and the crawl of the other one ends in an error, the crawl of A returns
\* the count and stores the snapshots that it returns and stores when it runs
\* alone, and the snapshots that were there before the run stay as they were.
C12_EntityIsolation ==
    (/\ max_workers > 1
     /\ Finished(NbA)
     /\ \E n \in Neighborhoods \ {NbA} : local[n].error) =>
        LET alone == AloneCrawl(LegacyDir, NbA, site[NbA])
        IN  /\ local[NbA].result = alone.result
            /\ StoredSince(LegacyDir, NbA) = alone.saved
            /\ \A f \in DOMAIN LegacyDir : f \in DOMAIN checkpoint_dir
                                           /\ checkpoint_dir[f] = LegacyDir[f]

\* The transactions of a row in the order of its pairs, the base first.
RowTransactions(row) ==
    extract_multiple_transactions(row.detail,
                                  with_details(base_row_data_of(row.cells), row.detail))

RECURSIVE Flatten(_)
Flatten(lists) ==
    IF lists = <<>> THEN <<>> ELSE Head(lists) \o Flatten(Tail(lists))

\* The hashes of the transactions of a site in page order, then row order,
\* then pair order.
SiteHashes(pages) ==
    LET transactions ==
            Flatten([p \in 1..Len(pages) |->
                       Flatten([r \in 1..Len(pages[p]) |-> RowTransactions(pages[p][r])])])
    IN  [k \in 1..Len(transactions) |-> create_record_hash(transactions[k])]

\* s is t with some elements left out.
RECURSIVE IsSubsequence(_, _)
IsSubsequence(s, t) ==
    IF s = <<>> THEN TRUE
    ELSE IF t = <<>> THEN FALSE
    ELSE IF Head(s) = Head(t) THEN IsSubsequence(Tail(s), Tail(t))
    ELSE IsSubsequence(s, Tail(t))

\* The records appended in this session.
SessionRecords(n) ==
    SubSeq(local[n].all_data, LoadedCount(n) + 1, Len(local[n].all_data))

\* C27: the records appended in a session stand in the accumulator after the
\* loaded ones, in the order of the site: by page, then by row, then by pair
\* with the base first.
C27_AppendOrder ==
    \A n \in Neighborhoods :
        local[n].pc # "idle" =>
            LET appended == SessionRecords(n)
            IN  IsSubsequence([k \in 1..Len(appended) |-> create_record_hash(appended[k])],
                              SiteHashes(site[n]))

\* C27 happens: a crawl has appended the record of the row of page 1 and the
\* two records of the row of page 2.
C27_Witness ==
    \E n \in Neighborhoods :
        /\ site[n] = <<<<RowPlain>>, <<RowPair>>>>
        /\ local[n].page_num = 2
        /\ LoadedCount(n) = 0
        /\ Len(local[n].all_data) = 3
        /\ local[n].all_data[1].address = <<"a">>
        /\ local[n].all_data[2].price # local[n].all_data[3].price

\* The neighborhood in the name that line 131 gave a file: what stands
\* between "checkpoint_" and "_<timestamp>_<number>.json", the timestamp being
\* 15 characters long.
SavedFor(f) ==
    SubSeq(f, Len(CheckpointPrefix) + 1,
           Len(f) - (1 + 15 + 1 + Len(IntToStr(checkpoint_num_of(f))) + Len(JsonSuffix)))

\* C28: the file that load_latest_checkpoint selected for a neighborhood is a
\* file that save_checkpoint wrote for that neighborhood.
C28_NamespaceIsolation ==
    \A n \in Neighborhoods :
        local[n].latest_checkpoint # EMPTY => SavedFor(local[n].latest_checkpoint) = n

\* C26: on a page the table lookup has failed at most twice while another
\* attempt is due; an attempt that finds the table goes on to the rows with no
\* further attempt; the third failure ends the page loop with no error to
\* return, and the step after it stores every record the crawl holds; the
\* crawl of A, which meets no failure, returns what it returns undisturbed.
C26_BoundedTableRetry ==
    [][\A n \in Neighborhoods :
          /\ local'[n].pc = "find_table" => local'[n].retry \in 0..2
          /\ (local[n].pc = "find_table" /\ local'[n].pc = "find_table"
                 /\ local'[n] # local[n]) =>
                local'[n].retry = local[n].retry + 1
          /\ (local[n].pc = "find_table" /\ local[n].retry = 2
                 /\ local'[n] # local[n] /\ local'[n].pc # "rows"
                 /\ faults' = faults) =>
                /\ local'[n].pc = "final"
                /\ local'[n].all_data = local[n].all_data
          /\ (local[n].pc = "final" /\ local'[n] # local[n]) =>
                /\ local'[n].pc = "returned"
                /\ local'[n].error \/
                      Range(local'[n].all_data) \subseteq
                         UNION { Range(SnapshotData(checkpoint_dir'[f])) :
                                   f \in checkpoint_files(checkpoint_dir', n) }
          /\ Finished(NbA)' =>
                local'[NbA].result = AloneCrawlFrom(LoadedBy(NbA), site[NbA]).result]_vars

\* C26 happens: on the second page two attempts have failed and the third is
\* due, a record of the first page not yet saved, the crawl of A under way.
C26_Witness ==
    \E n \in Neighborhoods \ {NbA} :
        /\ local[n].pc = "find_table"
        /\ local[n].retry = 2
        /\ local[n].page_num = 2
        /\ local[n].records_since_last_checkpoint > 0
        /\ Active(NbA)

----------------------------------------------------------------------------
(* Claims about create_record_hash *)

SameIdentity(r1, r2) ==
    \A k \in IdentityFields : Get(r1, k) = Get(r2, k)

\* C7: two records whose four identity fields are equal get the same hash,
\* whatever their other fields hold and whether or not those are present.
C7_HashIgnoresDescriptiveFields ==
    (ret # <<>> /\ SameIdentity(args.r1, args.r2)) => ret[1][1] = ret[1][2]

\* C7 happens: two hashed records with one identity, different descriptive
\* values and different sets of descriptive fields.
C7_Witness ==
    /\ ret # <<>>
    /\ SameIdentity(args.r1, args.r2)
    /\ DOMAIN args.r1 # DOMAIN args.r2
    /\ Get(args.r1, "propertyType") # Get(args.r2, "propertyType")
    /\ ret[1][1] = ret[1][2]

\* C8: two records that differ in an identity field have different key
\* strings, hence different hashes.
C8_HashSeparatesIdentities ==
    (ret # <<>> /\ ~SameIdentity(args.r1, args.r2))
        => (key_fields(args.r1) # key_fields(args.r2) /\ ret[1][1] # ret[1][2])

----------------------------------------------------------------------------
(* Claims about extract_multiple_transactions *)

\* The pair that extract_multiple_transactions reads at index i.
PairDate(features, i) == safe_get(features, 8 + 2 * i)
PairPrice(features, i) == safe_get(features, 9 + 2 * i)

\* C9: the call raises nothing and returns at least one record, the first
\* equal to the base row; a position past the end of the cells reads as "".
C9_NeverEmptyNeverFails ==
    ret # <<>> =>
        /\ ret[1] # RaisedIndexError
        /\ Len(ret[1]) >= 1
        /\ ret[1][1] = args.base_row_data
        /\ \A idx \in Len(args.features)..(Len(args.features) + 10) :
               safe_get(args.features, idx) = EMPTY

\* C9 happens: the call returned for a list shorter than 9 cells.
C9_Witness ==
    /\ ret # <<>>
    /\ Len(args.features) < 9
    /\ ret[1] = <<args.base_row_data>>

\* The number of leading pairs with both values non-empty, when the pair
\* after them is fully empty; -1 when the cells are not of that shape.
FullPairs(features) ==
    LET ks == { k \in 0..MaxTail :
                  /\ \A i \in 0..(k - 1) : PairDate(features, i) # EMPTY
                                            /\ PairPrice(features, i) # EMPTY
                  /\ PairDate(features, k) = EMPTY
                  /\ PairPrice(features, k) = EMPTY }
    IN  IF ks = {} THEN -1 ELSE CHOOSE k \in ks : TRUE

\* C10: k full pairs followed by an empty pair give k+1 records; record i+1
\* carries pair i's date and price and the base row's other fields.
C10_MultiTransactionExpansion ==
    (ret # <<>> /\ FullPairs(args.features) >= 0) =>
        LET k == FullPairs(args.features)
            base == args.base_row_data
        IN  /\ Len(ret[1]) = k + 1
            /\ \A i \in 0..(k - 1) :
                  LET rec == ret[1][i + 2]
                  IN  /\ rec["transactionDate"] = PairDate(args.features, i)
                      /\ rec["price"] = PairPrice(args.features, i)
                      /\ DOMAIN rec = DOMAIN base \cup {"transactionDate", "price"}
                      /\ \A f \in DOMAIN base \ {"transactionDate", "price"} :
                            rec[f] = base[f]

\* C10 happens: two full pairs, then the end of the cells.
C10_Witness ==
    /\ ret # <<>>
    /\ FullPairs(args.features) = 2
    /\ Len(ret[1]) = 3
    /\ ret[1][2]["price"] # ret[1][3]["price"]

\* Field key of an emitted record against the value of the pair it came from:
\* the value when it is non-empty, else what the base row has under the key
\* (nothing when the base row has no such key).
KeepsOrOverrides(rec, base, key, value) ==
    IF value # EMPTY
    THEN key \in DOMAIN rec /\ rec[key] = value
    ELSE IF key \in DOMAIN base
    THEN key \in DOMAIN rec /\ rec[key] = base[key]
    ELSE key \notin DOMAIN rec

\* C20: in the record emitted for a pair, a non-empty date or price of the
\* pair overrides the base row's value and an empty one leaves the base row's
\* value in place; no date or price is replaced by an empty string.
C20_PartialPair ==
    (ret # <<>> /\ ret[1] # RaisedIndexError) =>
        \A j \in 2..Len(ret[1]) :
            LET rec == ret[1][j]
                base == args.base_row_data
            IN  /\ KeepsOrOverrides(rec, base, "transactionDate",
                                    PairDate(args.features, j - 2))
                /\ KeepsOrOverrides(rec, base, "price",
                                    PairPrice(args.features, j - 2))
                /\ \A f \in DOMAIN base \ {"transactionDate", "price"} :
                      f \in DOMAIN rec /\ rec[f] = base[f]

\* C20 happens: a pair with an empty date and a price gave a record with the
\* base row's date and the pair's price, and a pair with a date only gave one
\* with the base row's price.
C20_Witness ==
    /\ ret # <<>>
    /\ Len(ret[1]) = 3
    /\ "transactionDate" \in DOMAIN args.base_row_data
    /\ args.base_row_data["transactionDate"] # EMPTY
    /\ PairDate(args.features, 0) = EMPTY
    /\ PairPrice(args.features, 0) # EMPTY
    /\ ret[1][2]["transactionDate"] = args.base_row_data["transactionDate"]
    /\ ret[1][2]["price"] = PairPrice(args.features, 0)
    /\ PairDate(args.features, 1) # EMPTY
    /\ PairPrice(args.features, 1) = EMPTY
    /\ ret[1][3]["price"] = args.base_row_data["price"]

\* The index of the first pair whose date and price are both empty; a pair
\* past the end of the cells reads as empty.
FirstEmptyPair(features) ==
    CHOOSE k \in 0..Len(features) :
        /\ PairDate(features, k) = EMPTY /\ PairPrice(features, k) = EMPTY
        /\ \A i \in 0..(k - 1) :
              PairDate(features, i) # EMPTY \/ PairPrice(features, i) # EMPTY

\* C21: the call returns the base row first, then one record for each pair
\* before the first fully-empty pair, in the order of the pairs, and nothing
\* for the pairs after it: 1 + the index of that pair records in all.
C21_StopsAtFirstEmptyPair ==
    ret # <<>> =>
        LET k == FirstEmptyPair(args.features)
            base == args.base_row_data
        IN  /\ Len(ret[1]) = 1 + k
            /\ ret[1][1] = base
            /\ \A i \in 0..(k - 1) :
                  /\ KeepsOrOverrides(ret[1][i + 2], base, "transactionDate",
                                      PairDate(args.features, i))
                  /\ KeepsOrOverrides(ret[1][i + 2], base, "price",
                                      PairPrice(args.features, i))

\* C21 happens: a fully-empty pair of blank cells, then a pair with a date and
\* a price; the call returned the base row alone.
C21_Witness ==
    /\ ret # <<>>
    /\ FirstEmptyPair(args.features) = 0
    /\ Len(args.features) = 12
    /\ args.features[9] # EMPTY
    /\ PairDate(args.features, 1) # EMPTY
    /\ PairPrice(args.features, 1) # EMPTY
    /\ ret[1] = <<args.base_row_data>>

----------------------------------------------------------------------------
(* Claims about the two locks *)

Locks == {"checkpoint_lock", "logging_lock"}

\* The locks thread n is inside a with block of.
HeldBy(n) == { lock \in Locks : n \in Holders(lock) }

\* The lock thread n is waiting for at a with statement, or "none".
Requested(n) ==
    IF args[n].at = "with" THEN "checkpoint_lock"
    ELSE IF args[n].at = "log_with" THEN thread_safe_log_lock
    ELSE "none"

\* A thread asks for logging_lock holding nothing or checkpoint_lock only,
\* and asks for checkpoint_lock holding nothing.
LockOrder ==
    \A n \in Neighborhoods :
        /\ Requested(n) = "logging_lock" => HeldBy(n) \subseteq {"checkpoint_lock"}
        /\ Requested(n) = "checkpoint_lock" => HeldBy(n) = {}

\* While a thread waits for a lock, some thread can take a step.
NoDeadlock ==
    (\E n \in Neighborhoods : Requested(n) # "none") => ENABLED NextLog

\* A thread stops waiting for a lock only by entering the with block of
\* that lock.
WaitEndsInside ==
    \A n \in Neighborhoods :
        args'[n] # args[n] =>
            /\ Requested(n) = "checkpoint_lock" =>
                  n \notin checkpoint_lock /\ n \in checkpoint_lock'
            /\ Requested(n) = "logging_lock" =>
                  n \notin logging_lock /\ n \in logging_lock'

\* C31: logging_lock is only asked for by a thread that holds no lock or
\* checkpoint_lock alone, and checkpoint_lock only by a thread that holds no
\* lock; no interleaving of save_checkpoint, load_latest_checkpoint and
\* thread_safe_log calls leaves the threads stuck, and every thread that asks
\* for a lock stops waiting in the end, which it does only by getting the lock.
C31_DeadlockFreedom ==
    /\ [](LockOrder /\ NoDeadlock)
    /\ [][WaitEndsInside]_vars
    /\ \A n \in LogThreads : (Requested(n) # "none") ~> (Requested(n) = "none")

\* C31 happens: a thread inside save_checkpoint, holding checkpoint_lock,
\* waits at the with of thread_safe_log for logging_lock while another thread,
\* logging its report, is inside that block.
C31_Witness ==
    \E n \in Neighborhoods, m \in Neighborhoods :
        /\ n # m
        /\ args[n].fn = "save" /\ args[n].at = "log_with"
        /\ args[m].fn = "log" /\ args[m].at = "log_body"
        /\ checkpoint_lock = {n}
        /\ logging_lock = {m}


----------------------------------------------------------------------------
(* Claims about termination *)

\* Inside an iteration of the page loop of line 259.
InPageLoop(n) == local[n].pc \in {"find_table", "rows", "paginate"}

\* The iterations of the while loop of line 100 that leave
\* extract_multiple_transactions with these transactions: one for each
\* additional transaction and the one that breaks.
LoopIterations(transactions) == Len(transactions)

\* The pairs of cells at positions 8+2k and 9+2k of which one cell at least
\* exists.
PairsOf(features) ==
    IF Len(features) > 8 THEN (Len(features) - 8 + 1) \div 2 ELSE 0

\* Every iteration of the page loop runs on a page number of its own, none
\* above MAX_PAGES.
PageLoopBounded ==
    \A n \in Neighborhoods : InPageLoop(n) => local[n].page_num \in 1..MAX_PAGES

\* The end of an iteration either ends the loop or moves to the next page
\* number.
PageLoopAdvances ==
    \A n \in Neighborhoods :
        (local[n].pc = "paginate" /\ local'[n] # local[n]) =>
            /\ local'[n].pc = "page"
            /\ \/ ~local'[n].has_next /\ local'[n].page_num = local[n].page_num
               \/ local'[n].page_num = local[n].page_num + 1

\* extract_multiple_transactions returned a list after no more iterations
\* than the cells have pairs, and one.
ExtractBounded ==
    (local = <<>> /\ ret # <<>>) =>
        /\ ret[1] # RaisedIndexError
        /\ LoopIterations(ret[1]) <= PairsOf(args.features) + 1

\* C32: every call of the browser returning, a crawl that has started returns
\* a count, after iterations of the page loop on page numbers that grow by
\* one and never pass MAX_PAGES, also on a site that shows an enabled next
\* button on every page; and extract_multiple_transactions returns for every
\* list of detail cells, after no more iterations than the list has pairs,
\* and one.
C32_CrawlTermination ==
    /\ [](PageLoopBounded /\ ExtractBounded)
    /\ [][PageLoopAdvances]_vars
    /\ (\E n \in Neighborhoods : Active(n)) ~> (\A n \in Neighborhoods : Finished(n))
    /\ (local = <<>>) ~> (ret # <<>>)

\* C32 happens: on the site with a page after page MAX_PAGES, the browser
\* raising nothing, the crawl has returned the count of the records of
\* MAX_PAGES pages.
C32_Witness ==
    \E n \in Neighborhoods :
        /\ Len(site[n]) = MAX_PAGES + 1
        /\ faults = 0
        /\ local[n].pc = "returned"
        /\ ~local[n].error
        /\ local[n].result = Len(local[n].all_data)
        /\ { r.address : r \in Range(local[n].all_data) } =
              { IntToStr(p) : p \in 1..MAX_PAGES }


====
